---- MODULE Spec2Model ----
(***************************************************************************)
(* A model of the Alice chatbot (musiclord/hello-alice): the Message and   *)
(* Conversation entities, the JSON file and in-memory repositories, the    *)
(* context assembler, and the turn cycle driven by ChatbotUseCase and      *)
(* ChatbotController.                                                      *)
(*                                                                         *)
(* Python values are modelled as follows.  Optional[x] is a sequence of    *)
(* length at most one (<<>> is None).  A str that the code only compares   *)
(* is a TLA+ string; a str that the code searches, splits or lower-cases   *)
(* is a sequence of one-character strings.  A datetime is a number of      *)
(* clock ticks, and its ISO-8601 text is a sequence of numbers.            *)
(***************************************************************************)
EXTENDS Integers, Sequences, FiniteSets, TLC

VARIABLES
    \* ---- the turn cycle (Spec) ----
    repoKind,        \* which ChatbotRepository the program was wired with
    files,           \* JSONFileRepository: conversation id -> file content
    mtime,           \* st_mtime of each file: the time of its last write
    heap,            \* the Conversation objects an InMemoryRepository holds
    conversations,   \* InMemoryRepository.conversations: id -> object (0: no key)
    keyOrder,        \* the keys of that dict in the order they were first set
    loaded,          \* LanguageModel._loaded
    current,         \* ChatbotController.current_conversation_id
    task,            \* each caller's position inside a controller call
    result,          \* what each caller's last controller call gave back
    lastTurn,        \* the last finished turn, if no other call followed it (history)
    nextConv,        \* conversation uuids handed out so far
    nextUuid,        \* message uuids handed out so far
    clock,           \* datetime.now()
    \* ---- the Conversation entity (SpecConv) ----
    cv,              \* one Conversation object
    cvPrev,          \* the same object before the last add_message (history)
    \* ---- the context assembler (SpecCtx) ----
    cx,              \* one get_relevant_context call: its inputs and its output
    \* ---- the repository round trip (SpecRepo) ----
    rt               \* one save/get exchange with a JSONFileRepository

otherThanTurn == <<clock, cv, cvPrev, cx, rt>>
turnVars == <<repoKind, files, mtime, heap, conversations, keyOrder, loaded,
              current, task, result, lastTurn, nextConv, nextUuid>>
vars == <<repoKind, files, mtime, heap, conversations, keyOrder, loaded, current,
          task, result, lastTurn, nextConv, nextUuid, clock, cv, cvPrev, cx, rt>>

-----------------------------------------------------------------------------
(* Bounds of the model.                                                    *)

MaxUuid == 3          \* message uuids a behaviour of Spec may draw
MaxClock == 3         \* clock ticks of a behaviour of SpecConv
MaxAppends == 3       \* add_message calls of a behaviour of SpecConv
MaxCtxMsgs == 4       \* messages of a conversation handed to the assembler
MaxWindow == 5        \* largest max_context_length tried
MaxPool == 3          \* memory items of a pool handed to the assembler
MaxStamp == 2         \* latest timestamp of a conversation saved in SpecRepo
MaxOthers == 51       \* conversations started in a behaviour of SpecMem
MaxRaceUuid == 4      \* message uuids a behaviour of SpecRace may draw

-----------------------------------------------------------------------------
(* Python helpers.                                                         *)

None == <<>>
Some(x) == <<x>>
IsNone(o) == Len(o) = 0
Min(a, b) == IF a <= b THEN a ELSE b
Max(a, b) == IF a >= b THEN a ELSE b

\* list[i:] for i >= 0 (0-based i), as Python clamps it
SliceFrom(s, i) == IF i >= Len(s) THEN <<>> ELSE SubSeq(s, i + 1, Len(s))

\* list[-n:], for any integer n: -0 is 0, so n = 0 is list[0:], the whole
\* list; a negative n is list[abs(n):]; n > len clamps to the whole list
LastSlice(s, n) ==
    IF n > 0 THEN SliceFrom(s, Max(Len(s) - n, 0))
    ELSE SliceFrom(s, -n)

\* list.insert(i, x) for a negative i: before the element i from the end,
\* clamped to the front
InsertFromEnd(s, k, x) ==
    LET at == Max(Len(s) - k, 0)
    IN  SubSeq(s, 1, at) \o <<x>> \o SubSeq(s, at + 1, Len(s))

-----------------------------------------------------------------------------
(* entities.py: MessageRole, Message, Conversation.                        *)

USER == "USER"
ASSISTANT == "ASSISTANT"
SYSTEM == "SYSTEM"
MessageRole == {USER, ASSISTANT, SYSTEM}

\* MessageRole.<member>.value
RoleValue(role) ==
    CASE role = USER -> "user"
      [] role = ASSISTANT -> "assistant"
      [] role = SYSTEM -> "system"

\* Message(id, role, content, timestamp, metadata) with __post_init__: an
\* empty id is replaced by a fresh uuid4 (a datetime is never falsy, so the
\* timestamp given is kept)
Message(id, role, content, timestamp, metadata, uuid) ==
    [id |-> IF id = "" THEN uuid ELSE id,
     role |-> role,
     content |-> content,
     timestamp |-> timestamp,
     metadata |-> metadata]

\* Conversation(id, messages, title, metadata=...) built without timestamps;
\* __post_init__ reads the clock once for created_at (now1) and once more
\* for updated_at (now2)
Conversation(id, messages, title, metadata, uuid, now1, now2) ==
    [id |-> IF id = "" THEN uuid ELSE id,
     messages |-> messages,
     title |-> title,
     created_at |-> now1,
     updated_at |-> now2,
     metadata |-> metadata]

\* Conversation.add_message with the clock bump dropped
AddMessageNoBump(conv, message, now) ==
    [conv EXCEPT !.messages = Append(@, message)]

\* Conversation.add_message: append, then updated_at = datetime.now()
AddMessage(conv, message, now) ==
    [conv EXCEPT !.messages = Append(@, message), !.updated_at = now]

\* a context of the first max_length messages in place of the last
GetContextMessagesOldest(conv, max_length) ==
    SubSeq(conv.messages, 1, Min(max_length, Len(conv.messages)))

\* Conversation.get_context_messages: self.messages[-max_length:]
GetContextMessages(conv, max_length) == LastSlice(conv.messages, max_length)

\* the default max_length of get_context_messages
DefaultContextLength == 10

-----------------------------------------------------------------------------
(* infrastructure/__init__.py: JSONFileRepository; demo.py and             *)
(* simple_demo.py: InMemoryRepository.                                     *)

TicksPerSecond == 2   \* clock ticks in a second (the code's is 10^6)

\* datetime.isoformat(): the fraction is written only when it is not zero
IsoFormat(t) ==
    IF t % TicksPerSecond = 0 THEN <<t \div TicksPerSecond>>
    ELSE <<t \div TicksPerSecond, t % TicksPerSecond>>

\* datetime.fromisoformat() rounding the fraction away
FromIsoFormatSeconds(s) == s[1] * TicksPerSecond

\* datetime.fromisoformat(): reads both shapes
FromIsoFormat(s) ==
    IF Len(s) = 1 THEN s[1] * TicksPerSecond
    ELSE s[1] * TicksPerSecond + s[2]

\* MessageRole(value): the member with that value
RoleOfValue(value) == CHOOSE role \in MessageRole : RoleValue(role) = value

\* JSONFileRepository._conversation_to_dict
ConversationToDict(conv) ==
    [id |-> conv.id,
     title |-> conv.title,
     created_at |-> IsoFormat(conv.created_at),
     updated_at |-> IsoFormat(conv.updated_at),
     metadata |-> conv.metadata,
     messages |-> [i \in 1..Len(conv.messages) |->
        [id |-> conv.messages[i].id,
         role |-> RoleValue(conv.messages[i].role),
         content |-> conv.messages[i].content,
         timestamp |-> IsoFormat(conv.messages[i].timestamp),
         metadata |-> conv.messages[i].metadata]]]

\* JSONFileRepository._dict_to_conversation
DictToConversation(data) ==
    [id |-> data.id,
     messages |-> [i \in 1..Len(data.messages) |->
        [id |-> data.messages[i].id,
         role |-> RoleOfValue(data.messages[i].role),
         content |-> data.messages[i].content,
         timestamp |-> FromIsoFormat(data.messages[i].timestamp),
         metadata |-> data.messages[i].metadata]],
     title |-> data.title,
     created_at |-> FromIsoFormat(data.created_at),
     updated_at |-> FromIsoFormat(data.updated_at),
     metadata |-> data.metadata]

\* a save that writes the dict to a second file as well
FileSaveWithCopy(fs, conv) ==
    [id \in DOMAIN fs |->
        IF id = conv.id \/ id = "memory_k" THEN Some(ConversationToDict(conv))
        ELSE fs[id]]

\* JSONFileRepository.save_conversation: the file named after the
\* conversation's id is (over)written with the dict
FileSave(fs, conv) == [fs EXCEPT ![conv.id] = Some(ConversationToDict(conv))]

\* JSONFileRepository.get_conversation answering an unknown id with an
\* empty conversation of that id
FileGetOrCreate(fs, id) ==
    IF IsNone(fs[id])
    THEN Some([id |-> id, messages |-> <<>>, title |-> None, created_at |-> 0,
               updated_at |-> 0, metadata |-> None])
    ELSE Some(DictToConversation(fs[id][1]))

\* JSONFileRepository.get_conversation: None when the file does not exist,
\* otherwise a fresh Conversation read from it
FileGet(fs, id) ==
    IF IsNone(fs[id]) THEN None ELSE Some(DictToConversation(fs[id][1]))

\* InMemoryRepository.get_conversation: self.conversations.get(id), the
\* stored object itself
MemoryGet(objs, dict, id) ==
    IF dict[id] = 0 THEN None ELSE Some(objs[dict[id]])

-----------------------------------------------------------------------------
(* The turn cycle: ChatbotController over ChatbotUseCase, MemoryUseCase    *)
(* and ModelManagementUseCase, a repository and a language model.  A       *)
(* controller call that suspends (send_message: at the backend load, at    *)
(* the generation call and at the storage write) is a sequence of actions; *)
(* the calls that do not are one action each.                              *)

MaxConvs == 2         \* conversation uuids a behaviour of Spec may draw

Tasks == {1, 2}
Sessions == {1}       \* the callers of Spec: one interactive session
Texts == {"hi", "yo"}
Prompts == {None, Some("sys")}
Keys == {"k"}
Values == {"v"}
Reply == "re"

ConvId(n) == "c" \o ToString(n)           \* the n-th uuid4 of a conversation
MsgUuid(n) == "m" \o ToString(n)          \* the n-th uuid4 of a message
MemoryId(key) == "memory_" \o key         \* f"memory_{key}"
AllIds == {ConvId(n) : n \in 1..MaxConvs} \cup {MemoryId(k) : k \in Keys}

NoConv == [id |-> "", messages |-> <<>>, title |-> None, created_at |-> 0,
           updated_at |-> 0, metadata |-> None]
IdleTask == [pc |-> "idle", target |-> "", text |-> "", conv |-> NoConv,
             ref |-> 0, ctx |-> <<>>, pre |-> <<>>, retryOf |-> None,
             given |-> None]
NoResult == [op |-> "none", raised |-> FALSE, success |-> FALSE,
             error |-> "", id |-> ""]

\* a call that returned its value
Returned(op, id) ==
    [op |-> op, raised |-> FALSE, success |-> TRUE, error |-> "", id |-> id]
\* a call that returned {"success": False, "error": str(e)}
Failed(op, error, id) ==
    [op |-> op, raised |-> FALSE, success |-> FALSE, error |-> error, id |-> id]
\* a call whose exception reached the caller
Raised(op, error) ==
    [op |-> op, raised |-> TRUE, success |-> FALSE, error |-> error, id |-> ""]

\* the (role, content) pairs of a message list
Pairs(msgs) == [i \in 1..Len(msgs) |-> <<msgs[i].role, msgs[i].content>>]

\* repository.get_conversation(id) in a given state of the repository
GetConversation(fs, objs, dict, id) ==
    IF repoKind = "json" THEN FileGet(fs, id) ELSE MemoryGet(objs, dict, id)

\* the Conversation object a turn works on: the copy it read from the file,
\* or the object the in-memory repository holds
Work(t) == IF repoKind = "json" THEN task[t].conv ELSE heap[task[t].ref]

\* message uuids the turns in flight may still draw
Need(t) ==
    CASE task[t].pc = "reading" -> 2
      [] task[t].pc \in {"loading", "generating"} -> 1
      [] OTHER -> 0
RECURSIVE SumNeed(_)
SumNeed(S) ==
    IF S = {} THEN 0
    ELSE LET t == CHOOSE x \in S : TRUE IN Need(t) + SumNeed(S \ {t})
UuidsLeft(n) == nextUuid + SumNeed(Tasks) + n <= MaxUuid

\* at most one turn in flight per conversation id (spec section 5)
NoTurnOn(id) == \A u \in Tasks : task[u].pc = "idle" \/ task[u].target # id

\* the write of file id at time now sets its st_mtime
Touch(times, id, now) == [times EXCEPT ![id] = now]

\* dict[id] = ...: a new key goes last, a key already there keeps its place
KeySet(order, id) ==
    IF \E i \in 1..Len(order) : order[i] = id THEN order ELSE Append(order, id)

\* repository.save_conversation(conv) for an object just constructed
SaveNew(conv, ok) ==
    IF repoKind = "json"
    THEN /\ files' = IF ok THEN FileSave(files, conv) ELSE files
         /\ mtime' = IF ok THEN Touch(mtime, conv.id, clock) ELSE mtime
         /\ UNCHANGED <<heap, conversations, keyOrder>>
    ELSE /\ heap' = Append(heap, conv)
         /\ conversations' = [conversations EXCEPT ![conv.id] = Len(heap) + 1]
         /\ keyOrder' = KeySet(keyOrder, conv.id)
         /\ UNCHANGED <<files, mtime>>

\* the working conversation of turn t becomes conv
SetWork(t, conv, rest) ==
    IF repoKind = "json"
    THEN /\ task' = [task EXCEPT ![t] = [rest EXCEPT !.conv = conv]]
         /\ UNCHANGED heap
    ELSE /\ task' = [task EXCEPT ![t] = rest]
         /\ heap' = [heap EXCEPT ![rest.ref] = conv]

\* ChatbotUseCase.start_conversation up to the save
StartConversation(system_prompt) ==
    LET conversation == Conversation("", <<>>, Some("New Conversation"), None,
                                     ConvId(nextConv + 1), clock, clock)
    IN  IF IsNone(system_prompt) THEN conversation
        ELSE AddMessage(conversation,
                        Message("", SYSTEM, system_prompt[1], clock, None,
                                MsgUuid(nextUuid + 1)),
                        clock)

\* str(ValueError(f"Conversation {conversation_id} not found"))
NotFoundError(id) == "Conversation " \o id \o " not found"

\* only the json repository does input/output that can fail
CanFail(ok) == ok \/ repoKind = "json"

\* ChatbotController.start_new_conversation (no try/except around the use
\* case: a failed save reaches the caller)
CtlStartNewConversation(t, system_prompt, ok) ==
    /\ task[t].pc = "idle"
    /\ nextConv < MaxConvs
    /\ IsNone(system_prompt) \/ UuidsLeft(1)
    /\ CanFail(ok)
    /\ LET conversation == StartConversation(system_prompt)
       IN  /\ SaveNew(conversation, ok)
           /\ current' = IF ok THEN Some(conversation.id) ELSE current
           /\ result' = [result EXCEPT ![t] =
                  IF ok THEN Returned("start", conversation.id)
                  ELSE Raised("start", "save failed")]
    /\ nextConv' = nextConv + 1
    /\ nextUuid' = IF IsNone(system_prompt) THEN nextUuid ELSE nextUuid + 1
    /\ UNCHANGED otherThanTurn
    /\ lastTurn' = None
    /\ UNCHANGED <<repoKind, loaded, task>>

\* the current conversation taken before the id the caller passed
TargetCurrentFirst(conversation_id, cur) ==
    IF IsNone(cur) THEN conversation_id ELSE cur

\* conversation_id or self.current_conversation_id
Target(conversation_id, cur) ==
    IF IsNone(conversation_id) THEN cur ELSE conversation_id

\* ChatbotController.send_message up to the call of the use case: the target
\* is conversation_id or current_conversation_id; with neither, a new
\* conversation is started first, outside the try block
CtlSendMessage(t, message, conversation_id, ok) ==
    /\ task[t].pc = "idle"
    /\ UuidsLeft(2)
    /\ LET target == Target(conversation_id, current)
       IN  IF IsNone(target)
           THEN /\ nextConv < MaxConvs
                /\ CanFail(ok)
                /\ LET conversation == StartConversation(None)
                   IN  /\ SaveNew(conversation, ok)
                       /\ current' = IF ok THEN Some(conversation.id)
                                     ELSE current
                       /\ task' = [task EXCEPT ![t] =
                              IF ok
                              THEN [IdleTask EXCEPT !.pc = "reading",
                                       !.target = conversation.id,
                                       !.text = message,
                                       !.given = conversation_id]
                              ELSE IdleTask]
                       /\ result' = [result EXCEPT ![t] =
                              IF ok THEN NoResult
                              ELSE Raised("send", "save failed")]
                /\ nextConv' = nextConv + 1
           ELSE /\ ok
                /\ task' = [task EXCEPT ![t] =
                       [IdleTask EXCEPT !.pc = "reading", !.target = target[1],
                                        !.text = message,
                                        !.given = conversation_id]]
                /\ result' = [result EXCEPT ![t] = NoResult]
                /\ UNCHANGED <<files, mtime, heap, conversations, keyOrder, current, nextConv>>
    /\ UNCHANGED otherThanTurn
    /\ UNCHANGED <<repoKind, loaded, lastTurn, nextUuid>>

\* ChatbotUseCase.send_message from the repository read to the first
\* suspension: ValueError when the conversation is not found (a file that is
\* not there is not opened, so only the read of an existing one can fail);
\* otherwise the
\* user message is appended and, if the model is loaded, the context is taken
\* and generation called
TurnBegin(t, ok) ==
    /\ task[t].pc = "reading"
    /\ CanFail(ok)
    /\ LET id == task[t].target
           got == GetConversation(files, heap, conversations, id)
       IN  IF IsNone(got)
           THEN /\ ok
                /\ result' = [result EXCEPT ![t] =
                       Failed("send", NotFoundError(id), id)]
                /\ task' = [task EXCEPT ![t] = IdleTask]
                /\ UNCHANGED <<heap, nextUuid>>
           ELSE IF ~ok
           THEN /\ result' = [result EXCEPT ![t] =
                       Failed("send", "read failed", id)]
                /\ task' = [task EXCEPT ![t] = IdleTask]
                /\ UNCHANGED <<heap, nextUuid>>
           ELSE LET user_msg == Message("", USER, task[t].text, clock, None,
                                        MsgUuid(nextUuid + 1))
                    conv == AddMessage(got[1], user_msg, clock)
                    retry == IF /\ ~IsNone(lastTurn)
                                /\ lastTurn[1].id = id
                                /\ lastTurn[1].outcome = "generate failed"
                                /\ lastTurn[1].text = task[t].text
                             THEN Some(lastTurn[1].ctx) ELSE None
                    rest == [task[t] EXCEPT
                               !.pc = IF loaded THEN "generating" ELSE "loading",
                               !.ref = conversations[id],
                               !.pre = got[1].messages,
                               !.retryOf = retry,
                               !.ctx = IF loaded
                                       THEN GetContextMessages(conv, DefaultContextLength)
                                       ELSE <<>>]
                IN  /\ SetWork(t, conv, rest)
                    /\ nextUuid' = nextUuid + 1
                    /\ UNCHANGED result
    /\ UNCHANGED otherThanTurn
    /\ UNCHANGED <<repoKind, files, mtime, conversations, keyOrder, loaded, current, lastTurn,
                   nextConv>>

\* the turn of task t ends in an exception, which ChatbotController.send_message
\* catches and returns as {"success": False, "error": str(e), ...}
TurnFails(t, error) ==
    /\ result' = [result EXCEPT ![t] = Failed("send", error, task[t].target)]
    /\ lastTurn' = Some([id |-> task[t].target, text |-> task[t].text,
                         ctx |-> Pairs(task[t].ctx), outcome |-> error])
    /\ task' = [task EXCEPT ![t] = IdleTask]

\* ChatbotUseCase.send_message, await language_model.load_model(...) and the
\* code up to the generation call; a failed load leaves _loaded False and
\* raises
TurnLoad(t, ok) ==
    /\ task[t].pc = "loading"
    /\ loaded' = ok
    /\ IF ok
       THEN /\ task' = [task EXCEPT ![t] =
                   [@ EXCEPT !.pc = "generating",
                             !.ctx = GetContextMessages(Work(t), DefaultContextLength)]]
            /\ UNCHANGED <<result, lastTurn>>
       ELSE TurnFails(t, "load failed")
    /\ UNCHANGED otherThanTurn
    /\ UNCHANGED <<repoKind, files, mtime, heap, conversations, keyOrder, current, nextConv,
                   nextUuid>>

\* ChatbotUseCase.send_message, await language_model.generate_response(...)
\* and the code up to the save: RuntimeError when the model is not loaded;
\* on success the assistant message is appended
TurnGenerate(t, ok) ==
    /\ task[t].pc = "generating"
    /\ IF ~loaded
       THEN /\ ~ok
            /\ TurnFails(t, "Model not loaded. Call load_model first.")
            /\ UNCHANGED <<heap, nextUuid>>
       ELSE IF ~ok
       THEN /\ TurnFails(t, "generate failed")
            /\ UNCHANGED <<heap, nextUuid>>
       ELSE LET message == Message("", ASSISTANT, Reply, clock, None,
                                   MsgUuid(nextUuid + 1))
            IN  /\ SetWork(t, AddMessage(Work(t), message, clock),
                           [task[t] EXCEPT !.pc = "persisting"])
                /\ nextUuid' = nextUuid + 1
                /\ UNCHANGED <<result, lastTurn>>
    /\ UNCHANGED otherThanTurn
    /\ UNCHANGED <<repoKind, files, mtime, conversations, keyOrder, loaded, current, nextConv>>

\* the save issued one statement early, before the reply is appended
TurnSavedBeforeReply(t) ==
    [Work(t) EXCEPT !.messages = SubSeq(@, 1, Len(@) - 1)]

\* a save that writes the record as stored now, followed by the two messages
\* of the turn, in place of the turn's own conversation
TurnSavedMerged(t) ==
    IF repoKind = "json"
    THEN [Work(t) EXCEPT !.messages =
             FileGet(files, task[t].target)[1].messages
                 \o SubSeq(@, Len(@) - 1, Len(@))]
    ELSE Work(t)

\* the conversation send_message hands to repository.save_conversation
TurnSaved(t) == Work(t)

\* ChatbotUseCase.send_message, await repository.save_conversation(...) and
\* the return through the controller
TurnPersist(t, ok) ==
    /\ task[t].pc = "persisting"
    /\ CanFail(ok)
    /\ IF ~ok
       THEN /\ TurnFails(t, "save failed")
            /\ UNCHANGED <<files, mtime, conversations, keyOrder>>
       ELSE /\ IF repoKind = "json"
               THEN /\ files' = FileSave(files, TurnSaved(t))
                    /\ mtime' = Touch(mtime, TurnSaved(t).id, clock)
                    /\ UNCHANGED <<conversations, keyOrder>>
               ELSE /\ conversations' = [conversations EXCEPT
                           ![TurnSaved(t).id] = task[t].ref]
                    /\ keyOrder' = KeySet(keyOrder, TurnSaved(t).id)
                    /\ UNCHANGED <<files, mtime>>
            /\ result' = [result EXCEPT ![t] = Returned("send", task[t].target)]
            /\ lastTurn' = Some([id |-> task[t].target, text |-> task[t].text,
                                 ctx |-> Pairs(task[t].ctx), outcome |-> "ok"])
            /\ task' = [task EXCEPT ![t] = IdleTask]
    /\ UNCHANGED otherThanTurn
    /\ UNCHANGED <<repoKind, heap, loaded, current, nextConv, nextUuid>>

\* ChatbotController.get_conversation_history
CtlGetConversationHistory(t, conversation_id, ok) ==
    /\ task[t].pc = "idle"
    /\ LET target == IF IsNone(conversation_id) THEN current
                     ELSE conversation_id
       IN  IF IsNone(target)
           THEN /\ ok
                /\ result' = [result EXCEPT ![t] =
                       Failed("history", "No active conversation", "")]
           ELSE /\ CanFail(ok)
                /\ LET got == GetConversation(files, heap, conversations,
                                              target[1])
                   IN  IF IsNone(got)
                       THEN /\ ok
                            /\ result' = [result EXCEPT ![t] =
                                   Failed("history", "Conversation not found",
                                          target[1])]
                       ELSE result' = [result EXCEPT ![t] =
                                IF ok THEN Returned("history", target[1])
                                ELSE Failed("history", "read failed", target[1])]
    /\ UNCHANGED otherThanTurn
    /\ UNCHANGED <<repoKind, files, mtime, heap, conversations, keyOrder, loaded, current, task,
                   lastTurn, nextConv, nextUuid>>

\* MemoryUseCase.store_memory's Conversation
MemoryConversation(key, value, context) ==
    Conversation(MemoryId(key),
                 <<Message("", SYSTEM, "MEMORY: " \o key \o " = " \o value, clock,
                           Some(<< <<"type", Some("memory")>>, <<"key", Some(key)>>,
                                   <<"context", context>> >>),
                           MsgUuid(nextUuid + 1))>>,
                 Some("Memory: " \o key),
                 Some(<< <<"type", Some("memory")>> >>),
                 "", clock, clock)

\* ChatbotController.store_memory
CtlStoreMemory(t, key, value, ok) ==
    /\ task[t].pc = "idle"
    /\ UuidsLeft(1)
    /\ CanFail(ok)
    /\ SaveNew(MemoryConversation(key, value, None), ok)
    /\ result' = [result EXCEPT ![t] =
           IF ok THEN Returned("memory", "")
           ELSE Failed("memory", "save failed", "")]
    /\ lastTurn' = None
    /\ nextUuid' = nextUuid + 1
    /\ UNCHANGED otherThanTurn
    /\ UNCHANGED <<repoKind, loaded, current, task, nextConv>>

\* ChatbotController.load_model
CtlLoadModel(t, ok) ==
    /\ task[t].pc = "idle"
    /\ loaded' = ok
    /\ result' = [result EXCEPT ![t] =
           IF ok THEN Returned("load", "") ELSE Failed("load", "load failed", "")]
    /\ UNCHANGED otherThanTurn
    /\ UNCHANGED <<repoKind, files, mtime, heap, conversations, keyOrder, current, task, lastTurn,
                   nextConv, nextUuid>>

-----------------------------------------------------------------------------
(* The specification of the turn cycle.                                    *)

\* the conversation_id arguments the callers pass
OptIds == {None} \cup {Some(ConvId(n)) : n \in 1..MaxConvs}

\* the conversation a send_message call with this argument would address
TargetOf(conversation_id) ==
    IF ~IsNone(conversation_id) THEN conversation_id[1]
    ELSE IF ~IsNone(current) THEN current[1] ELSE ""

\* a send_message call made while no turn is in flight on its conversation
SerialSendMessage(t, message, conversation_id, ok) ==
    /\ NoTurnOn(TargetOf(conversation_id))
    /\ CtlSendMessage(t, message, conversation_id, ok)

Idle == [c |-> "idle"]

TurnInit ==
    /\ repoKind \in {"json", "memory"}
    /\ files = [id \in AllIds |-> None]
    /\ mtime = [id \in AllIds |-> 0]
    /\ heap = <<>>
    /\ conversations = [id \in AllIds |-> 0]
    /\ keyOrder = <<>>
    /\ loaded = FALSE
    /\ current = None
    /\ task = [t \in Tasks |-> IdleTask]
    /\ result = [t \in Tasks |-> NoResult]
    /\ lastTurn = None
    /\ nextConv = 0
    /\ nextUuid = 0

Init ==
    /\ TurnInit
    /\ clock = 0
    /\ cv = Idle
    /\ cvPrev = Idle
    /\ cx = Idle
    /\ rt = Idle

Next ==
    \E t \in Sessions, ok \in BOOLEAN :
          \/ \E p \in Prompts : CtlStartNewConversation(t, p, ok)
          \/ \E m \in Texts, c \in OptIds : SerialSendMessage(t, m, c, ok)
          \/ TurnBegin(t, ok)
          \/ TurnLoad(t, ok)
          \/ TurnGenerate(t, ok)
          \/ TurnPersist(t, ok)
          \/ \E c \in OptIds : CtlGetConversationHistory(t, c, ok)
          \/ \E k \in Keys, v \in Values : CtlStoreMemory(t, k, v, ok)
          \/ CtlLoadModel(t, ok)

Spec == Init /\ [][Next]_vars

-----------------------------------------------------------------------------
(* Properties of the turn cycle.                                           *)

\* the messages get_conversation(id) gives in the state after the step
StoredAfter(id) == GetConversation(files', heap', conversations', id)

\* id is unknown to storage: no file of that name, no key in the dict
Unknown(id) ==
    IF repoKind = "json" THEN IsNone(files[id]) ELSE conversations[id] = 0

\* the step in which send_message returns its response
TurnSucceeds(t) ==
    task[t].pc = "persisting" /\ task'[t].pc = "idle" /\ result'[t].success

\* the step in which the backend load or the generation call of a turn fails
TurnFailsInBackend(t) ==
    task[t].pc \in {"loading", "generating"} /\ task'[t].pc = "idle"

\* the two messages of the turn of task t
TurnPairs(t) == << <<USER, task[t].text>>, <<ASSISTANT, Reply>> >>

\* C1: after a successful send_message(id, text) the record stored under id
\* is the sequence stored when the turn read it, followed by the user message
\* with content text and then the assistant message of the backend; the write
\* comes after the assistant message is appended (while the turn is about to
\* write, its conversation already ends with both messages, the caller has no
\* result yet and a file store still holds the old record) and before the
\* return (the step that returns is the step that writes).
C1_SendMessagePersistsTurn ==
    [][\A t \in Tasks :
         /\ task[t].pc = "persisting" =>
              /\ Work(t).messages = task[t].pre \o
                    SubSeq(Work(t).messages, Len(task[t].pre) + 1,
                           Len(task[t].pre) + 2)
              /\ Pairs(SubSeq(Work(t).messages, Len(task[t].pre) + 1,
                              Len(Work(t).messages))) = TurnPairs(t)
              /\ result[t] = NoResult
              /\ repoKind = "json" =>
                    FileGet(files, task[t].target)[1].messages = task[t].pre
         /\ TurnSucceeds(t) =>
              /\ ~IsNone(StoredAfter(task[t].target))
              /\ StoredAfter(task[t].target)[1].messages = Work(t).messages
              /\ result'[t] = Returned("send", task[t].target)
      ]_vars

\* C1 witness: a turn on a conversation that already held a message has
\* returned, and the stored record has that message and the turn's two
C1_Witness ==
    \E t \in Tasks, id \in AllIds :
        /\ result[t] = Returned("send", id)
        /\ ~IsNone(GetConversation(files, heap, conversations, id))
        /\ Len(GetConversation(files, heap, conversations, id)[1].messages) = 3

\* C2 (as claimed): when the load or the generation of a turn fails, the
\* caller gets success=false and the conversation next obtained for the id
\* is the one read, followed by the turn's user message and nothing else.
C2_FailedTurnKeepsUserMessage ==
    [][\A t \in Tasks :
         TurnFailsInBackend(t) =>
            /\ ~result'[t].success /\ ~result'[t].raised
            /\ ~IsNone(StoredAfter(task[t].target))
            /\ Pairs(StoredAfter(task[t].target)[1].messages) =
                  Pairs(task[t].pre) \o << <<USER, task[t].text>> >>
      ]_vars

\* C3 (as claimed): the context handed to the backend by a retry (the same
\* id and text, right after a turn that failed in generation) is, as (role,
\* content) pairs, the context the failed turn handed to it.
C3_RetrySendsSameContext ==
    \A t \in Tasks :
        (task[t].pc = "generating" /\ ~IsNone(task[t].retryOf)) =>
            Pairs(task[t].ctx) = task[t].retryOf[1]

\* C4 (as claimed): no controller call lets an exception reach the caller; a
\* failure is a result with success=false and an error text.
C4_ControllerNeverRaises ==
    \A t \in Tasks :
        /\ ~result[t].raised
        /\ (result[t].op # "none" /\ ~result[t].success) => result[t].error # ""

\* C5: for an id unknown to storage get_conversation is None; send_message
\* on it returns success=false with the not-found reason, appends nothing,
\* leaves the backend alone (the turn ends without a load or a generation
\* call) and writes nothing; get_conversation_history on it returns
\* success=false with the not-found reason.
C5_UnknownIdReportsNotFound ==
    [][/\ \A id \in AllIds :
            Unknown(id) => IsNone(GetConversation(files, heap, conversations, id))
       /\ \A t \in Tasks :
            /\ (task[t].pc = "reading" /\ Unknown(task[t].target)
                  /\ task'[t] # task[t]) =>
                 /\ result'[t] = Failed("send", NotFoundError(task[t].target),
                                        task[t].target)
                 /\ task'[t] = IdleTask
                 /\ UNCHANGED <<files, mtime, heap, conversations, keyOrder, loaded, nextUuid>>
            /\ (result'[t] # result[t] /\ result'[t].op = "history"
                  /\ result'[t].id # "" /\ Unknown(result'[t].id)) =>
                 /\ result'[t] = Failed("history", "Conversation not found",
                                        result'[t].id)
                 /\ UNCHANGED <<files, mtime, heap, conversations, keyOrder, loaded, nextUuid>>
      ]_vars

\* C5 witness: a call on an id unknown to storage, made after a conversation
\* was started, was answered with not found
C5_Witness ==
    \E id \in AllIds :
        /\ Unknown(id)
        /\ result[1] \in {Failed("send", NotFoundError(id), id),
                          Failed("history", "Conversation not found", id)}
        /\ nextConv > 0

-----------------------------------------------------------------------------
(* The Conversation entity on its own (SpecConv): one object, built at some *)
(* time, to which messages are appended while the clock runs, and which is *)
(* written to a JSON file and read back.                                   *)

\* the variables of the turn cycle, at rest
TurnParked == TurnInit /\ repoKind = "json"

\* ConversationAnalyzer.analyze_conversation, "duration": updated_at minus
\* created_at (in ticks; the code divides the seconds by 60)
Duration(conv) == conv.updated_at - conv.created_at

ConvInit ==
    /\ TurnParked
    /\ clock \in 0..MaxClock
    /\ \E now1 \in 0..clock :
          cv = [c |-> "live", appends |-> 0,
                conv |-> Conversation("", <<>>, None, None, ConvId(1), now1, clock)]
    /\ cvPrev = cv
    /\ cx = Idle
    /\ rt = Idle

\* time passes
CvTick ==
    /\ clock < MaxClock
    /\ clock' = clock + 1
    /\ UNCHANGED <<turnVars, cv, cvPrev, cx, rt>>

\* a Message is built at some time (now or a tick ago) and handed to
\* Conversation.add_message now
CvAddMessage(role, content, age) ==
    /\ cv.appends < MaxAppends
    /\ age <= clock
    /\ cvPrev' = cv
    /\ cv' = [cv EXCEPT
          !.appends = @ + 1,
          !.conv = AddMessage(@, Message("", role, content, clock - age, None,
                                         MsgUuid(cv.appends + 1)),
                              clock)]
    /\ UNCHANGED <<turnVars, clock, cx, rt>>

\* the conversation is saved to its file and read back
CvSaveAndGet ==
    /\ cvPrev' = cv
    /\ cv' = [cv EXCEPT !.conv = DictToConversation(ConversationToDict(@))]
    /\ UNCHANGED <<turnVars, clock, cx, rt>>

ConvNext ==
    \/ CvTick
    \/ \E role \in {USER, ASSISTANT}, age \in 0..1 : CvAddMessage(role, "hi", age)
    \/ CvSaveAndGet

SpecConv == ConvInit /\ [][ConvNext]_vars

\* C6: for a Conversation under add_message calls and a clock that does not
\* run backwards: updated_at >= created_at in every state, so the analyzer's
\* duration is never negative; created_at never changes; updated_at never
\* decreases, and an append sets it to the time of the append; an append
\* leaves the earlier messages as they were and in place and adds the new
\* message at the end; no step drops or reorders a message.
C6_ConversationTimesAndAppendOnly ==
    /\ [](cv.conv.updated_at >= cv.conv.created_at /\ Duration(cv.conv) >= 0)
    /\ [][/\ cv'.conv.created_at = cv.conv.created_at
          /\ cv'.conv.updated_at >= cv.conv.updated_at
          /\ Len(cv'.conv.messages) >= Len(cv.conv.messages)
          /\ SubSeq(cv'.conv.messages, 1, Len(cv.conv.messages)) = cv.conv.messages
          /\ cv'.appends = cv.appends + 1 =>
                /\ cv'.conv.updated_at = clock
                /\ Len(cv'.conv.messages) = Len(cv.conv.messages) + 1
                /\ cv'.conv.messages[Len(cv'.conv.messages)].id = MsgUuid(cv'.appends)
         ]_vars

\* C6 witness: two appends at different times, the second after a tick
C6_Witness ==
    /\ cv.appends = 2
    /\ Len(cv.conv.messages) = 2
    /\ cv.conv.updated_at > cvPrev.conv.updated_at
    /\ cvPrev.conv.updated_at > cv.conv.created_at

-----------------------------------------------------------------------------
(* features.py: ContextManager (SpecCtx).  Texts that the code searches    *)
(* are sequences of one-character strings.                                 *)

Uppers == <<"A", "B", "C", "D", "E", "F", "G", "H", "I", "J", "K", "L", "M",
            "N", "O", "P", "Q", "R", "S", "T", "U", "V", "W", "X", "Y", "Z">>
Lowers == <<"a", "b", "c", "d", "e", "f", "g", "h", "i", "j", "k", "l", "m",
            "n", "o", "p", "q", "r", "s", "t", "u", "v", "w", "x", "y", "z">>
Whitespace == {" ", "\t", "\n"}

\* str.lower()
Lower(s) ==
    [i \in 1..Len(s) |->
        IF \E k \in 1..Len(Uppers) : Uppers[k] = s[i]
        THEN Lowers[CHOOSE k \in 1..Len(Uppers) : Uppers[k] = s[i]]
        ELSE s[i]]

\* str.split(): the maximal runs of non-whitespace; cur is the run being read
RECURSIVE SplitFrom(_, _)
SplitFrom(s, cur) ==
    IF s = <<>> THEN (IF cur = <<>> THEN <<>> ELSE <<cur>>)
    ELSE IF Head(s) \in Whitespace
         THEN (IF cur = <<>> THEN <<>> ELSE <<cur>>) \o SplitFrom(Tail(s), <<>>)
         ELSE SplitFrom(Tail(s), Append(cur, Head(s)))
Split(s) == SplitFrom(s, <<>>)

\* a in b, for two texts
In(a, b) ==
    \E i \in 0..(Len(b) - Len(a)) : SubSeq(b, i + 1, i + Len(a)) = a

\* the most memories get_relevant_context injects: relevant_memories[:3]
MemoryCap == 3

\* a confidence is a number of thirds: 1.0 is 3, score / 3.0 is score
One == 3

\* MemoryItem(key, value, category, created_at, last_accessed) with the
\* defaults access_count=0, confidence=1.0, context=None
MemoryItem(key, value, category, created_at, last_accessed) ==
    [key |-> key, value |-> value, category |-> category,
     created_at |-> created_at, last_accessed |-> last_accessed,
     access_count |-> 0, confidence |-> One, context |-> None]

\* the score with the category folded to lower case as the key and the
\* value are
ScoreFolded(query_lower, memory) ==
      (IF In(Lower(memory.key), query_lower) THEN 2 ELSE 0)
    + (IF \E w \in 1..Len(Split(Lower(memory.value))) :
             In(Split(Lower(memory.value))[w], query_lower)
       THEN 1 ELSE 0)
    + (IF In(Lower(memory.category), query_lower) THEN 1 ELSE 0)

\* the relevance score of _find_relevant_memories for one memory
Score(query_lower, memory) ==
      (IF In(Lower(memory.key), query_lower) THEN 2 ELSE 0)
    + (IF \E w \in 1..Len(Split(Lower(memory.value))) :
             In(Split(Lower(memory.value))[w], query_lower)
       THEN 1 ELSE 0)
    + (IF In(memory.category, query_lower) THEN 1 ELSE 0)

\* a sort by falling confidence that turns items of equal confidence round
RECURSIVE SortByConfidenceUnstable(_, _)
SortByConfidenceUnstable(idx, pool) ==
    IF idx = <<>> THEN <<>>
    ELSE LET sorted == SortByConfidenceUnstable(SubSeq(idx, 1, Len(idx) - 1), pool)
             i == idx[Len(idx)]
             pos == Cardinality({j \in 1..Len(sorted) :
                        pool[sorted[j]].confidence > pool[i].confidence})
         IN  SubSeq(sorted, 1, pos) \o <<i>> \o SubSeq(sorted, pos + 1, Len(sorted))

\* list.sort(key=confidence, reverse=True) over indices into the pool: a
\* stable sort, items of equal confidence keep their order
RECURSIVE SortByConfidence(_, _)
SortByConfidence(idx, pool) ==
    IF idx = <<>> THEN <<>>
    ELSE LET sorted == SortByConfidence(SubSeq(idx, 1, Len(idx) - 1), pool)
             i == idx[Len(idx)]
             pos == Cardinality({j \in 1..Len(sorted) :
                        pool[sorted[j]].confidence >= pool[i].confidence})
         IN  SubSeq(sorted, 1, pos) \o <<i>> \o SubSeq(sorted, pos + 1, Len(sorted))

\* a scorer that also counts an access of every item it returns
FindRelevantMemoriesCounting(query, memories) ==
    LET query_lower == Lower(query)
        scored == [i \in 1..Len(memories) |->
                     IF Score(query_lower, memories[i]) > 0
                     THEN [memories[i] EXCEPT
                             !.confidence = Min(One, Score(query_lower, memories[i])),
                             !.access_count = @ + 1]
                     ELSE memories[i]]
        relevant == SelectSeq([i \in 1..Len(memories) |-> i],
                              LAMBDA i : Score(query_lower, memories[i]) > 0)
    IN  [memories |-> scored, relevant |-> SortByConfidence(relevant, scored)]

\* ContextManager._find_relevant_memories: the items that score above zero
\* get confidence min(1.0, score / 3.0), in place; the result lists them
\* (as indices into the pool) by falling confidence
FindRelevantMemories(query, memories) ==
    LET query_lower == Lower(query)
        scored == [i \in 1..Len(memories) |->
                     IF Score(query_lower, memories[i]) > 0
                     THEN [memories[i] EXCEPT
                             !.confidence = Min(One, Score(query_lower, memories[i]))]
                     ELSE memories[i]]
        relevant == SelectSeq([i \in 1..Len(memories) |-> i],
                              LAMBDA i : Score(query_lower, memories[i]) > 0)
    IN  [memories |-> scored, relevant |-> SortByConfidence(relevant, scored)]

\* the Message get_relevant_context builds for a memory
MemoryMessage(memory, now, uuid) ==
    Message("", SYSTEM,
            <<"M", "e", "m", "o", "r", "y", ":", " ">> \o memory.key
                \o <<" ", "i", "s", " ">> \o memory.value,
            now,
            Some(<< <<"type", Some("memory")>>,
                    <<"confidence", Some(memory.confidence)>> >>),
            uuid)

\* the loop of get_relevant_context: context_messages.insert(-1, message)
\* for each memory in turn
RECURSIVE InsertMemories(_, _, _, _)
InsertMemories(context_messages, memories, now, drawn) ==
    IF memories = <<>> THEN context_messages
    ELSE InsertMemories(
             InsertFromEnd(context_messages, 1,
                           MemoryMessage(Head(memories), now, MsgUuid(drawn + 1))),
             Tail(memories), now, drawn + 1)

\* ContextManager(length).get_relevant_context(conversation, current_message,
\* memories), length being self.max_context_length: the list returned and
\* the pool as the call leaves it; drawn is the number of message uuids drawn
\* before the call
GetRelevantContext(conversation, current_message, memories, length, now, drawn) ==
    LET context_messages == GetContextMessages(conversation, length)
    IN  IF IsNone(memories) \/ memories[1] = <<>>
        THEN [context |-> context_messages, memories |-> memories]
        ELSE LET found == FindRelevantMemories(current_message, memories[1])
                 top == [k \in 1..Min(MemoryCap, Len(found.relevant)) |->
                            found.memories[found.relevant[k]]]
             IN  [context |-> InsertMemories(context_messages, top, now, drawn),
                  memories |-> Some(found.memories)]

\* ---- the inputs tried ----

CatItem == MemoryItem(<<"C", "a", "t">>, <<"o", "n", " ", "m", "a", "t">>,
                      <<"l", "o", "c", "a", "t", "i", "o", "n">>, 0, 0)
HatItem == MemoryItem(<<"h", "a", "t">>, <<"r", "e", "d">>,
                      <<"p", "r", "e", "f", "e", "r", "e", "n", "c", "e">>, 0, 0)
DogItem == MemoryItem(<<"d", "o", "g">>, <<"a", "t">>,
                      <<"l", "o", "c", "a", "t", "i", "o", "n">>, 0, 0)
AtItem == MemoryItem(<<"a", "t">>, <<"x">>,
                     <<"p", "e", "r", "s", "o", "n", "a", "l">>, 0, 0)
Items == {CatItem, HatItem, DogItem, AtItem}

Queries == {<<>>,
            <<"z", "z">>,
            <<"c", "a", "t", " ", "h", "a", "t">>,
            <<"m", "y", " ", "C", "a", "t", " ", "l", "o", "c", "a", "t", "i", "o", "n">>}

\* the lists of at most n different items
RECURSIVE Lists(_)
Lists(n) ==
    IF n = 0 THEN {<<>>}
    ELSE Lists(n - 1) \cup
         {Append(l, x) : l \in {m \in Lists(n - 1) : Len(m) = n - 1},
                         x \in Items} 

Pools == {None} \cup
         {Some(l) : l \in {m \in Lists(MaxPool) :
                             \A i, j \in 1..Len(m) : i # j => m[i] # m[j]}}

\* a conversation of n messages, user and assistant in turn
CtxConversation(n) ==
    [NoConv EXCEPT
        !.id = ConvId(1),
        !.messages = [i \in 1..n |->
            Message(MsgUuid(i), IF i % 2 = 1 THEN USER ELSE ASSISTANT,
                    <<"h", "i">>, 0, None, "")]]

Windows == {-1} \cup 0..MaxWindow

CtxInit ==
    /\ TurnParked
    /\ clock = 0
    /\ cv = Idle
    /\ cvPrev = Idle
    /\ rt = Idle
    /\ \E n \in 0..MaxCtxMsgs, w \in Windows, pool \in Pools, q \in Queries :
          cx = [c |-> "in", conversation |-> CtxConversation(n), window |-> w,
                memories |-> pool, query |-> q]

\* a window that is the conversation's own list whenever it holds all of it
WindowSharedWhenWhole(conversation, length) ==
    LastSlice(conversation.messages, length) = conversation.messages

\* whether the list get_context_messages returns is the conversation's own
\* list: self.messages[-max_length:] builds a new list each time
WindowShared(conversation, length) == FALSE

\* the conversation as get_relevant_context leaves it: the memory messages
\* are inserted into the list get_context_messages returned
ConversationAfterContext(conversation, length, context) ==
    IF WindowShared(conversation, length)
    THEN [conversation EXCEPT !.messages = context]
    ELSE conversation

\* ContextManager(window).get_relevant_context(conversation, query, pool)
CxAssemble ==
    /\ cx.c = "in"
    /\ LET got == GetRelevantContext(cx.conversation, cx.query, cx.memories,
                                     cx.window, clock, Len(cx.conversation.messages))
       IN  cx' = [c |-> "out", conversation |-> cx.conversation,
                  window |-> cx.window, query |-> cx.query,
                  given |-> cx.memories,
                  after |-> ConversationAfterContext(cx.conversation, cx.window,
                                                     got.context),
                  memories |-> got.memories,
                  win |-> GetContextMessages(cx.conversation, cx.window),
                  out |-> got.context]
    /\ UNCHANGED <<turnVars, clock, cv, cvPrev, rt>>

CtxNext == CxAssemble

SpecCtx == CtxInit /\ [][CtxNext]_vars

\* a message get_relevant_context made from a memory
IsMemoryMessage(m) ==
    /\ m.role = SYSTEM
    /\ ~IsNone(m.metadata)
    /\ m.metadata[1][1] = <<"type", Some("memory")>>

\* C7 (as claimed): for every conversation, every window from 0 up and every
\* pool, the assembled context has at most window + 3 messages.
C7_ContextWithinWindowPlusCap ==
    (cx.c = "out" /\ cx.window >= 0) => Len(cx.out) <= cx.window + MemoryCap

\* C8 (as claimed): get_context_messages(window) is the last
\* min(window, len(messages)) messages of the conversation, in their order.
C8_WindowIsLastMessages ==
    (cx.c = "out" /\ cx.window >= 0) =>
        LET messages == cx.conversation.messages
            k == Min(cx.window, Len(messages))
        IN  cx.win = SubSeq(messages, Len(messages) - k + 1, Len(messages))

\* C9 (as claimed): the assembled context is the window without its last
\* message, then the memory messages, then the window's last message; its
\* final element is never a memory message, whatever the window holds.
C9_MemoriesBeforeLastMessage ==
    cx.c = "out" =>
        LET mems == SelectSeq(cx.out, IsMemoryMessage)
            n == Len(cx.win)
        IN  /\ cx.out = (IF n = 0 THEN <<>> ELSE SubSeq(cx.win, 1, n - 1))
                         \o mems
                         \o (IF n = 0 THEN <<>> ELSE <<cx.win[n]>>)
            /\ cx.out # <<>> => ~IsMemoryMessage(cx.out[Len(cx.out)])

-----------------------------------------------------------------------------
(* JSONFileRepository on its own (SpecRepo): conversations are saved and   *)
(* read back.  rt remembers what was last saved under each id (saved), how *)
(* often (saves, counted up to 2), and what the last read returned (got).  *)

\* ---- the conversations saved ----

RtMessages ==
    {Message("m1", USER, "hi", ts, None, "") : ts \in {0, MaxStamp}} \cup
    {Message("m2", ASSISTANT, Reply, 1, None, ""),
     Message("m3", SYSTEM, "MEMORY: k = v", 1,
             Some(<< <<"type", Some("memory")>>, <<"key", Some("k")>>,
                     <<"context", None>> >>), "")}

RtMessageLists ==
    {<<>>} \cup {<<m>> : m \in RtMessages}
           \cup {<<m, n>> : m \in {u \in RtMessages : u.role = USER},
                             n \in {a \in RtMessages : a.role # USER}}

RtConversations ==
    {[id |-> ConvId(1), messages |-> ms, title |-> tm[1],
      created_at |-> ca, updated_at |-> ua, metadata |-> tm[2]] :
        ms \in RtMessageLists,
        tm \in {<<None, None>>,
                <<Some("New Conversation"), Some(<< <<"type", Some("memory")>> >>)>>},
        ca \in 0..MaxStamp,
        ua \in 0..MaxStamp} \cup
    {[NoConv EXCEPT !.id = ConvId(2), !.title = tl] : tl \in {None, Some("t")}}

RepoInit ==
    /\ TurnParked
    /\ clock = 0
    /\ cv = Idle
    /\ cvPrev = Idle
    /\ cx = Idle
    /\ rt = [c |-> "repo", saved |-> [id \in AllIds |-> None],
             saves |-> [id \in AllIds |-> 0], got |-> None]

\* JSONFileRepository.save_conversation(conv)
RtSave(conv) ==
    /\ conv.updated_at >= conv.created_at
    /\ files' = FileSave(files, conv)
    /\ mtime' = Touch(mtime, conv.id, clock)
    /\ rt' = [rt EXCEPT !.saved[conv.id] = Some(conv),
                        !.saves[conv.id] = Min(@ + 1, 2),
                        !.got = None]
    /\ UNCHANGED <<repoKind, heap, conversations, keyOrder, loaded, current, task, result,
                   lastTurn, nextConv, nextUuid, clock, cv, cvPrev, cx>>

\* JSONFileRepository.get_conversation(id)
RtGet(id) ==
    /\ rt' = [rt EXCEPT !.got = Some([id |-> id, conv |-> FileGet(files, id)])]
    /\ UNCHANGED <<turnVars, clock, cv, cvPrev, cx>>

RepoNext ==
    \/ \E conv \in RtConversations : RtSave(conv)
    \/ \E id \in AllIds : RtGet(id)

SpecRepo == RepoInit /\ [][RepoNext]_vars

\* C10: get_conversation(id) after save_conversation returns a conversation
\* equal to the one last saved under id, field by field: id, title,
\* created_at, updated_at, metadata and the messages in their order, each
\* with its id, role, content, timestamp and metadata; so a second save
\* under an id replaces the first.  An id never saved gives None.
C10_SaveThenGetRoundTrip ==
    (rt.c = "repo" /\ ~IsNone(rt.got)) =>
        LET id == rt.got[1].id
            got == rt.got[1].conv
        IN  IF IsNone(rt.saved[id]) THEN IsNone(got)
            ELSE LET c == rt.saved[id][1] IN
                 /\ ~IsNone(got)
                 /\ got[1].id = c.id
                 /\ got[1].title = c.title
                 /\ got[1].created_at = c.created_at
                 /\ got[1].updated_at = c.updated_at
                 /\ got[1].metadata = c.metadata
                 /\ Len(got[1].messages) = Len(c.messages)
                 /\ \A i \in 1..Len(c.messages) :
                       /\ got[1].messages[i].id = c.messages[i].id
                       /\ got[1].messages[i].role = c.messages[i].role
                       /\ got[1].messages[i].content = c.messages[i].content
                       /\ got[1].messages[i].timestamp = c.messages[i].timestamp
                       /\ got[1].messages[i].metadata = c.messages[i].metadata
                 /\ got[1] = c

\* C10 witness: a conversation of two messages, with a title, metadata and
\* timestamps that are not whole seconds, was saved over an earlier one and
\* read back
C10_Witness ==
    /\ rt.c = "repo"
    /\ ~IsNone(rt.got)
    /\ rt.saves[rt.got[1].id] = 2
    /\ ~IsNone(rt.got[1].conv)
    /\ Len(rt.got[1].conv[1].messages) = 2
    /\ rt.got[1].conv[1].messages[2].role = SYSTEM
    /\ rt.got[1].conv[1].updated_at % TicksPerSecond # 0
    /\ ~IsNone(rt.got[1].conv[1].metadata)

-----------------------------------------------------------------------------
(* Reading what is stored: deserialization of a file, list_conversations   *)
(* of the three repositories, MemoryUseCase.retrieve_memories.             *)
(*                                                                         *)
(* The content of a file is a record.  A JSON object is the record of its  *)
(* keys; a file whose text is not JSON is [text |-> ...]; a JSON document  *)
(* that is not an object is [array |-> ...].                               *)

\* an operation's outcome: the exception that left it (exc, "" for none)
\* and the value it returned
Outcome(exc, value) == [exc |-> exc, value |-> value]

\* the text is one datetime.fromisoformat accepts
IsIsoText(s) ==
    /\ Len(s) \in {1, 2}
    /\ Len(s) = 2 => s[2] \in 1..(TicksPerSecond - 1)

\* the exception Message(id=msg["id"], role=MessageRole(msg["role"]), ...)
\* of _dict_to_conversation ends in, "" if none; the arguments are evaluated
\* in this order
MessageError(msg) ==
    IF "id" \notin DOMAIN msg THEN "KeyError"
    ELSE IF "role" \notin DOMAIN msg THEN "KeyError"
    ELSE IF msg.role \notin {RoleValue(r) : r \in MessageRole} THEN "ValueError"
    ELSE IF "content" \notin DOMAIN msg THEN "KeyError"
    ELSE IF "timestamp" \notin DOMAIN msg THEN "KeyError"
    ELSE IF ~IsIsoText(msg.timestamp) THEN "ValueError"
    ELSE ""

\* the exception json.load followed by _dict_to_conversation ends in, "" if
\* none: the messages are built first, then the Conversation from id, title,
\* created_at and updated_at; metadata is read with .get and may be missing
DocumentError(doc) ==
    IF "text" \in DOMAIN doc THEN "JSONDecodeError"
    ELSE IF "array" \in DOMAIN doc THEN "TypeError"
    ELSE IF "messages" \notin DOMAIN doc THEN "KeyError"
    ELSE IF \E i \in 1..Len(doc.messages) : MessageError(doc.messages[i]) # ""
    THEN MessageError(doc.messages[
             CHOOSE i \in 1..Len(doc.messages) :
                /\ MessageError(doc.messages[i]) # ""
                /\ \A j \in 1..(i - 1) : MessageError(doc.messages[j]) = ""])
    ELSE IF "id" \notin DOMAIN doc THEN "KeyError"
    ELSE IF "title" \notin DOMAIN doc THEN "KeyError"
    ELSE IF "created_at" \notin DOMAIN doc THEN "KeyError"
    ELSE IF ~IsIsoText(doc.created_at) THEN "ValueError"
    ELSE IF "updated_at" \notin DOMAIN doc THEN "KeyError"
    ELSE IF ~IsIsoText(doc.updated_at) THEN "ValueError"
    ELSE ""

\* dict.get("metadata") of a message or a document
GetMetadata(d) == IF "metadata" \in DOMAIN d THEN d.metadata ELSE None

\* _dict_to_conversation of a document that DocumentError passes
ReadDocument(doc) ==
    DictToConversation(
        [id |-> doc.id, title |-> doc.title, created_at |-> doc.created_at,
         updated_at |-> doc.updated_at, metadata |-> GetMetadata(doc),
         messages |-> [i \in 1..Len(doc.messages) |->
            [id |-> doc.messages[i].id, role |-> doc.messages[i].role,
             content |-> doc.messages[i].content,
             timestamp |-> doc.messages[i].timestamp,
             metadata |-> GetMetadata(doc.messages[i])]]])

\* the exceptions get_conversation and list_conversations catch
Caught == {"JSONDecodeError", "KeyError"}

\* JSONFileRepository.get_conversation with its try/except: None for no file
\* and for a caught exception; any other exception leaves the call
FileRead(fs, id) ==
    IF IsNone(fs[id]) THEN Outcome("", None)
    ELSE LET e == DocumentError(fs[id][1])
         IN  IF e = "" THEN Outcome("", Some(ReadDocument(fs[id][1])))
             ELSE IF e \in Caught THEN Outcome("", None)
             ELSE Outcome(e, None)

\* list[:n] for any integer n
HeadSlice(s, n) ==
    IF n >= 0 THEN SubSeq(s, 1, Min(n, Len(s)))
    ELSE SubSeq(s, 1, Max(Len(s) + n, 0))

\* list.sort(key=..., reverse=True) of a list of ids, key[id] a number: a
\* stable sort, ids of equal key keep their order
RECURSIVE SortDescending(_, _)
SortDescending(ids, key) ==
    IF ids = <<>> THEN <<>>
    ELSE LET sorted == SortDescending(SubSeq(ids, 1, Len(ids) - 1), key)
             id == ids[Len(ids)]
             pos == Cardinality({j \in 1..Len(sorted) : key[sorted[j]] >= key[id]})
         IN  SubSeq(sorted, 1, pos) \o <<id>> \o SubSeq(sorted, pos + 1, Len(sorted))

\* the loop of JSONFileRepository.list_conversations over the files chosen:
\* a file whose reading ends in a caught exception is skipped, any other
\* exception ends the scan and leaves the call
RECURSIVE ScanFiles(_, _, _)
ScanFiles(fs, ids, acc) ==
    IF ids = <<>> THEN Outcome("", acc)
    ELSE LET e == DocumentError(fs[Head(ids)][1])
         IN  IF e = ""
             THEN ScanFiles(fs, Tail(ids), Append(acc, ReadDocument(fs[Head(ids)][1])))
             ELSE IF e \in Caught THEN ScanFiles(fs, Tail(ids), acc)
             ELSE Outcome(e, <<>>)

\* JSONFileRepository.list_conversations(limit): glob lists the files in the
\* directory's order, they are sorted by st_mtime, latest first, the first
\* limit of them are read
FileList(fs, times, glob, limit) ==
    ScanFiles(fs, HeadSlice(SortDescending(glob, times), limit), <<>>)

\* demo.py InMemoryRepository.list_conversations(limit): the dict's values,
\* sorted by updated_at, latest first
MemoryList(objs, dict, order, limit) ==
    LET updated == [id \in DOMAIN dict |->
                       IF dict[id] = 0 THEN 0 ELSE objs[dict[id]].updated_at]
        sorted == SortDescending(order, updated)
    IN  Outcome("", HeadSlice([i \in 1..Len(sorted) |-> objs[dict[sorted[i]]]], limit))

\* simple_demo.py InMemoryRepository.list_conversations(limit): the dict's
\* values in the order of the keys
SimpleList(objs, dict, order, limit) ==
    Outcome("", HeadSlice([i \in 1..Len(order) |-> objs[dict[order[i]]]], limit))

\* the default limit of list_conversations
DefaultListLimit == 50

\* repository.list_conversations(limit) of the repository in use
ListConversations(glob, limit) ==
    CASE repoKind = "json" -> FileList(files, mtime, glob, limit)
      [] repoKind = "memory" -> MemoryList(heap, conversations, keyOrder, limit)
      [] OTHER -> SimpleList(heap, conversations, keyOrder, limit)

\* the files of the directory, in the order glob yields them: some order
RECURSIVE SeqOf(_)
SeqOf(S) ==
    IF S = {} THEN <<>>
    ELSE LET x == CHOOSE y \in S : TRUE IN <<x>> \o SeqOf(S \ {x})
GlobOrder(fs) == SeqOf({id \in DOMAIN fs : ~IsNone(fs[id])})

\* dict.get(key) of an optional metadata dict (a list of key-value pairs);
\* None for a dict that is None and for a key that is missing
DictGet(metadata, key) ==
    IF IsNone(metadata) THEN None
    ELSE IF \E i \in 1..Len(metadata[1]) : metadata[1][i][1] = key
    THEN metadata[1][CHOOSE i \in 1..Len(metadata[1]) : metadata[1][i][1] = key][2]
    ELSE None

\* the messages of one conversation that retrieve_memories returns
RECURSIVE MatchingContents(_, _)
MatchingContents(messages, query) ==
    IF messages = <<>> THEN <<>>
    ELSE (IF /\ DictGet(Head(messages).metadata, "type") = Some("memory")
             /\ In(Lower(query), Lower(Head(messages).content))
          THEN <<Head(messages).content>> ELSE <<>>)
         \o MatchingContents(Tail(messages), query)

\* the loop of retrieve_memories over the conversations listed
RECURSIVE MatchingMemories(_, _)
MatchingMemories(convs, query) ==
    IF convs = <<>> THEN <<>>
    ELSE (IF DictGet(Head(convs).metadata, "type") = Some("memory")
          THEN MatchingContents(Head(convs).messages, query) ELSE <<>>)
         \o MatchingMemories(Tail(convs), query)

\* MemoryUseCase.retrieve_memories(query): list_conversations() with its
\* default limit, then the search
RetrieveMemories(query, glob) ==
    LET listed == ListConversations(glob, DefaultListLimit)
    IN  IF listed.exc # "" THEN listed
        ELSE Outcome("", MatchingMemories(listed.value, query))

-----------------------------------------------------------------------------
(* Memories among conversations (SpecMem): one memory is stored, other     *)
(* conversations are started before and after it, each save a tick after   *)
(* the one before, and retrieve_memories is called.                        *)

\* f"MEMORY: {key} = {value}" for a key and a value that are searched
MemoryText(key, value) ==
    <<"M", "E", "M", "O", "R", "Y", ":", " ">> \o key \o <<" ", "=", " ">> \o value

\* MemoryUseCase.store_memory's Conversation for such a key and value
SearchableMemory(key, value, context) ==
    Conversation("memory_" \o ToString(key),
                 <<Message("", SYSTEM, MemoryText(key, value), clock,
                           Some(<< <<"type", Some("memory")>>, <<"key", Some(key)>>,
                                   <<"context", context>> >>),
                           MsgUuid(nextUuid + 1))>>,
                 Some(<<"M", "e", "m", "o", "r", "y", ":", " ">> \o key),
                 Some(<< <<"type", Some("memory")>> >>),
                 "", clock, clock)

MemKeys == {<<"K", "e", "y">>}
MemValues == {<<"V", "a", "l">>}
MemQueries == {<<>>, <<"k", "E", "Y">>, <<"v", "a", "l", "u", "e">>}
MemIds == {ConvId(n) : n \in 1..MaxOthers}
             \cup {"memory_" \o ToString(k) : k \in MemKeys}

MemInit ==
    /\ repoKind \in {"json", "memory", "simple"}
    /\ files = [id \in MemIds |-> None]
    /\ mtime = [id \in MemIds |-> 0]
    /\ heap = <<>>
    /\ conversations = [id \in MemIds |-> 0]
    /\ keyOrder = <<>>
    /\ loaded = FALSE
    /\ current = None
    /\ task = [t \in Tasks |-> IdleTask]
    /\ result = [t \in Tasks |-> NoResult]
    /\ lastTurn = None
    /\ nextConv = 0
    /\ nextUuid = 0
    /\ clock = 0
    /\ cv = Idle
    /\ cvPrev = Idle
    /\ cx = Idle
    /\ rt = [c |-> "mem", stored |-> None, query |-> <<>>, out |-> None]

\* MemoryUseCase.store_memory(key, value)
MemStore(key, value) ==
    /\ IsNone(rt.stored)
    /\ SaveNew(SearchableMemory(key, value, None), TRUE)
    /\ nextUuid' = nextUuid + 1
    /\ clock' = clock + 1
    /\ rt' = [rt EXCEPT !.stored = Some(MemoryText(key, value)), !.out = None]
    /\ UNCHANGED <<repoKind, loaded, current, task, result, lastTurn, nextConv,
                   cv, cvPrev, cx>>

\* ChatbotUseCase.start_conversation(): one more conversation is saved
MemStartConversation ==
    /\ nextConv < MaxOthers
    /\ SaveNew(StartConversation(None), TRUE)
    /\ nextConv' = nextConv + 1
    /\ clock' = clock + 1
    /\ rt' = [rt EXCEPT !.out = None]
    /\ UNCHANGED <<repoKind, loaded, current, task, result, lastTurn, nextUuid,
                   cv, cvPrev, cx>>

\* MemoryUseCase.retrieve_memories(query)
MemRetrieve(query) ==
    /\ rt' = [rt EXCEPT !.query = query,
                        !.out = Some(RetrieveMemories(query, GlobOrder(files)))]
    /\ UNCHANGED <<turnVars, clock, cv, cvPrev, cx>>

MemNext ==
    \/ \E k \in MemKeys, v \in MemValues : MemStore(k, v)
    \/ MemStartConversation
    \/ \E q \in MemQueries : MemRetrieve(q)

SpecMem == MemInit /\ [][MemNext]_vars

\* C11 (as claimed): retrieve_memories(query) does not raise; it returns the
\* text of the stored memory if that text contains the query, letter case
\* aside, however many conversations were saved since; and it returns
\* nothing else.
C11_RetrieveFindsEveryStoredMemory ==
    (rt.c = "mem" /\ ~IsNone(rt.out)) =>
        /\ rt.out[1].exc = ""
        /\ \A i \in 1..Len(rt.out[1].value) : Some(rt.out[1].value[i]) = rt.stored
        /\ (~IsNone(rt.stored) /\ In(Lower(rt.query), Lower(rt.stored[1]))) =>
              \E i \in 1..Len(rt.out[1].value) : rt.out[1].value[i] = rt.stored[1]

-----------------------------------------------------------------------------
(* Concurrent turns (SpecRace): two conversations are stored and the model *)
(* is loaded; two callers run send_message on either conversation, their   *)
(* steps interleave at the suspension points while the clock runs, and     *)
(* list_conversations is called in between.                                *)

\* a conversation start_conversation() saved at time 0
Started(n) ==
    Conversation("", <<>>, Some("New Conversation"), None, ConvId(n), 0, 0)

RaceIds == {ConvId(1), ConvId(2)}

RaceInit ==
    /\ repoKind \in {"json", "memory", "simple"}
    /\ files = [id \in AllIds |->
                  IF repoKind = "json" /\ id \in RaceIds
                  THEN Some(ConversationToDict(
                           Started(CHOOSE n \in 1..2 : ConvId(n) = id)))
                  ELSE None]
    /\ mtime = [id \in AllIds |-> 0]
    /\ heap = IF repoKind = "json" THEN <<>> ELSE <<Started(1), Started(2)>>
    /\ conversations = [id \in AllIds |->
                          IF repoKind = "json" \/ id \notin RaceIds THEN 0
                          ELSE CHOOSE n \in 1..2 : ConvId(n) = id]
    /\ keyOrder = IF repoKind = "json" THEN <<>> ELSE <<ConvId(1), ConvId(2)>>
    /\ loaded = TRUE
    /\ current = Some(ConvId(2))
    /\ task = [t \in Tasks |-> IdleTask]
    /\ result = [t \in Tasks |-> NoResult]
    /\ lastTurn = None
    /\ nextConv = 2
    /\ nextUuid = 0
    /\ clock = 0
    /\ cv = Idle
    /\ cvPrev = Idle
    /\ cx = Idle
    /\ rt = [c |-> "race", listed |-> None]

\* ChatbotController.send_message(message, id) up to the call of the use
\* case, whatever the other caller is doing
RaceSendMessage(t, message, id) ==
    /\ task[t].pc = "idle"
    /\ nextUuid + SumNeed(Tasks) + 2 <= MaxRaceUuid
    /\ task' = [task EXCEPT ![t] =
           [IdleTask EXCEPT !.pc = "reading", !.target = id, !.text = message]]
    /\ result' = [result EXCEPT ![t] = NoResult]
    /\ UNCHANGED otherThanTurn
    /\ UNCHANGED <<repoKind, files, mtime, heap, conversations, keyOrder, loaded,
                   current, lastTurn, nextConv, nextUuid>>

\* time passes
RaceTick ==
    /\ clock < MaxClock
    /\ clock' = clock + 1
    /\ UNCHANGED <<turnVars, cv, cvPrev, cx, rt>>

\* the two orders glob may yield the files in
Globs == {GlobOrder(files),
          [i \in 1..Len(GlobOrder(files)) |->
              GlobOrder(files)[Len(GlobOrder(files)) + 1 - i]]}

\* ChatbotUseCase.list_conversations(limit)
RaceList(limit, glob) ==
    /\ rt' = [rt EXCEPT !.listed =
           Some([limit |-> limit, out |-> ListConversations(glob, limit)])]
    /\ UNCHANGED <<turnVars, clock, cv, cvPrev, cx>>

RaceNext ==
    \/ \E t \in Tasks, id \in RaceIds :
          RaceSendMessage(t, IF t = 1 THEN "hi" ELSE "yo", id)
    \/ \E t \in Tasks : TurnBegin(t, TRUE)
    \/ \E t \in Tasks : TurnGenerate(t, TRUE)
    \/ \E t \in Tasks : TurnPersist(t, TRUE)
    \/ RaceTick
    \/ \E limit \in {1, DefaultListLimit}, glob \in Globs : RaceList(limit, glob)

SpecRace == RaceInit /\ [][RaceNext]_vars

\* C12 (as claimed): list_conversations(limit) returns at most limit
\* conversations, each updated no later than the one before it, whatever
\* turns ran and however their steps interleaved, for each repository.
C12_ListedLatestUpdatedFirst ==
    (rt.c = "race" /\ ~IsNone(rt.listed)) =>
        LET out == rt.listed[1].out
        IN  /\ out.exc = ""
            /\ Len(out.value) <= rt.listed[1].limit
            /\ \A i \in 1..(Len(out.value) - 1) :
                  out.value[i].updated_at >= out.value[i + 1].updated_at

\* C15: with the file store a turn writes back the record it read followed
\* by its own two messages.  If no other turn saved the conversation since
\* the read, the stored messages only grow at the end; if another turn did
\* (the two were in flight on the same id together), some message stored
\* before the write is missing after it: the update of the turn that saved
\* first is lost.
C15_StaleSaveLosesMessages ==
    [][\A t \in Tasks :
         (repoKind = "json" /\ TurnSucceeds(t)) =>
            LET id == task[t].target
                before == FileGet(files, id)[1].messages
                after == FileGet(files', id)[1].messages
                own == SubSeq(Work(t).messages, Len(Work(t).messages) - 1,
                              Len(Work(t).messages))
            IN  /\ after = task[t].pre \o own
                /\ before = task[t].pre =>
                      SubSeq(after, 1, Len(before)) = before
                /\ before # task[t].pre =>
                      \E i \in 1..Len(before) :
                         \A j \in 1..Len(after) : after[j].id # before[i].id
      ]_vars

\* C15 witness: two turns on conversation c1 have both returned success, four
\* messages were made, and the stored record holds two of them
C15_Witness ==
    /\ repoKind = "json"
    /\ result[1] = Returned("send", ConvId(1))
    /\ result[2] = Returned("send", ConvId(1))
    /\ nextUuid = 4
    /\ Len(FileGet(files, ConvId(1))[1].messages) = 2

-----------------------------------------------------------------------------
(* Files that are not what save_conversation writes (SpecBad): three files *)
(* of the storage directory are written, one after the other, each with a  *)
(* well-formed record or with something else; get_conversation and         *)
(* list_conversations are called on the result.                            *)

BadIds == {"a", "b", "c"}

\* the record save_conversation writes for a conversation of one message
GoodDocument(id) ==
    ConversationToDict(
        Conversation(id, <<Message("m1", USER, "hi", 1, None, "")>>,
                     Some("New Conversation"), None, "", 0, 1))

\* a JSON object without one of its keys
Without(doc, key) == [k \in DOMAIN doc \ {key} |-> doc[k]]

\* what a file may hold: the record; the record without "metadata"; text
\* that is not JSON; a JSON array; the record without "title"; the record
\* with a role no MessageRole has; the record with a created_at that is not
\* a timestamp; the record whose message has no "content"
Documents(id) ==
    {GoodDocument(id),
     Without(GoodDocument(id), "metadata"),
     [text |-> "{"],
     [array |-> <<>>],
     Without(GoodDocument(id), "title"),
     [GoodDocument(id) EXCEPT !.messages[1].role = "robot"],
     [GoodDocument(id) EXCEPT !.created_at = <<>>],
     [GoodDocument(id) EXCEPT !.messages[1] = Without(@, "content")]}

BadInit ==
    /\ repoKind = "json"
    /\ files = [id \in BadIds |-> None]
    /\ mtime = [id \in BadIds |-> 0]
    /\ heap = <<>>
    /\ conversations = [id \in BadIds |-> 0]
    /\ keyOrder = <<>>
    /\ loaded = FALSE
    /\ current = None
    /\ task = [t \in Tasks |-> IdleTask]
    /\ result = [t \in Tasks |-> NoResult]
    /\ lastTurn = None
    /\ nextConv = 0
    /\ nextUuid = 0
    /\ clock = 0
    /\ cv = Idle
    /\ cvPrev = Idle
    /\ cx = Idle
    /\ rt = [c |-> "bad", got |-> None, listed |-> None]

\* a file that is not there yet is written
BadWrite(id, doc) ==
    /\ IsNone(files[id])
    /\ files' = [files EXCEPT ![id] = Some(doc)]
    /\ mtime' = Touch(mtime, id, clock)
    /\ clock' = clock + 1
    /\ rt' = [rt EXCEPT !.got = None, !.listed = None]
    /\ UNCHANGED <<repoKind, heap, conversations, keyOrder, loaded, current, task,
                   result, lastTurn, nextConv, nextUuid, cv, cvPrev, cx>>

\* JSONFileRepository.get_conversation(id)
BadGet(id) ==
    /\ rt' = [rt EXCEPT !.got = Some([id |-> id, out |-> FileRead(files, id)])]
    /\ UNCHANGED <<turnVars, clock, cv, cvPrev, cx>>

\* JSONFileRepository.list_conversations(limit)
BadList(limit) ==
    /\ rt' = [rt EXCEPT !.listed =
           Some([limit |-> limit,
                 out |-> FileList(files, mtime, GlobOrder(files), limit)])]
    /\ UNCHANGED <<turnVars, clock, cv, cvPrev, cx>>

BadNext ==
    \/ \E id \in BadIds : \E doc \in Documents(id) : BadWrite(id, doc)
    \/ \E id \in BadIds : BadGet(id)
    \/ \E limit \in {1, DefaultListLimit} : BadList(limit)

SpecBad == BadInit /\ [][BadNext]_vars

\* C13 (as claimed): get_conversation never raises and gives None for a file
\* that cannot be deserialized; list_conversations never raises and returns
\* the well-formed records among the files it scans, in the order scanned.
C13_MalformedRecordIsAbsent ==
    rt.c = "bad" =>
        /\ ~IsNone(rt.got) =>
              LET id == rt.got[1].id
                  out == rt.got[1].out
              IN  /\ out.exc = ""
                  /\ (~IsNone(files[id]) /\ DocumentError(files[id][1]) # "") =>
                        IsNone(out.value)
        /\ ~IsNone(rt.listed) =>
              LET out == rt.listed[1].out
                  scanned == HeadSlice(SortDescending(GlobOrder(files), mtime),
                                       rt.listed[1].limit)
                  good == SelectSeq(scanned,
                              LAMBDA id : DocumentError(files[id][1]) = "")
              IN  /\ out.exc = ""
                  /\ out.value = [i \in 1..Len(good) |->
                                     ReadDocument(files[good[i]][1])]

-----------------------------------------------------------------------------
(* The backend load within the turn cycle (Spec).                          *)

\* the step in which the turn of task t calls load_model
InvokesLoad(t) == task[t].pc # "loading" /\ task'[t].pc = "loading"

\* the step in which the turn of task t calls generate_response
InvokesGenerate(t) == task[t].pc # "generating" /\ task'[t].pc = "generating"

\* C14 (as claimed): a turn calls load_model only when is_loaded() is False
\* at that step; a turn calls generate_response only with the backend
\* loaded; and the backend, once loaded, stays loaded (there is no unload),
\* so that no turn after a load that succeeded calls load_model again.
C14_LoadIsGuarded ==
    [][/\ \A t \in Tasks :
            /\ InvokesLoad(t) => ~loaded
            /\ InvokesGenerate(t) => loaded'
       /\ loaded => loaded']_vars

-----------------------------------------------------------------------------
(* features.py: MemoryExtractor (SpecExtract).  re is modelled for the     *)
(* pieces MEMORY_PATTERNS is written with, matched by backtracking in the  *)
(* order re tries them.  Every pattern consumes at least one character,    *)
(* so no match is empty.                                                   *)

Lit(s) == [t |-> "alt", alts |-> <<s>>]     \* the text itself
Alt(alts) == [t |-> "alt", alts |-> alts]   \* (?:a|b|c), tried left to right
Ws == [t |-> "ws"]                          \* \s+
Lazy == [t |-> "lazy"]                      \* (.+?)
Greedy == [t |-> "greedy"]                  \* (.+)

\* the pattern has s at position pos (pos characters lie before it)
StartsWith(text, pos, s) ==
    /\ pos + Len(s) <= Len(text)
    /\ SubSeq(text, pos + 1, pos + Len(s)) = s

\* \s takes whitespace, . takes everything but a newline
Takes(piece, ch) == IF piece.t = "ws" THEN ch \in Whitespace ELSE ch # "\n"

\* the number of characters from pos on that the piece can take
RECURSIVE RunLength(_, _, _)
RunLength(piece, text, pos) ==
    IF pos < Len(text) /\ Takes(piece, text[pos + 1])
    THEN 1 + RunLength(piece, text, pos + 1)
    ELSE 0

\* the match of the pattern that starts at pos, if there is one: the end
\* of the match and the texts of its groups
RECURSIVE MatchHere(_, _, _, _)
RECURSIVE TryAlts(_, _, _, _, _)
RECURSIVE TryRuns(_, _, _, _, _, _, _)
MatchHere(pattern, text, pos, groups) ==
    IF pattern = <<>> THEN Some([end |-> pos, groups |-> groups])
    ELSE IF Head(pattern).t = "alt"
         THEN TryAlts(Head(pattern).alts, Tail(pattern), text, pos, groups)
         ELSE LET most == RunLength(Head(pattern), text, pos)
              IN  TryRuns(Head(pattern), Tail(pattern), text, pos, groups,
                          IF Head(pattern).t = "lazy" THEN 1 ELSE most, most)

\* the alternatives in turn, the first with which the rest matches
TryAlts(alts, rest, text, pos, groups) ==
    IF alts = <<>> THEN None
    ELSE LET m == IF StartsWith(text, pos, Head(alts))
                  THEN MatchHere(rest, text, pos + Len(Head(alts)), groups)
                  ELSE None
         IN  IF IsNone(m) THEN TryAlts(Tail(alts), rest, text, pos, groups)
             ELSE m

\* a repetition taking k of the most characters it can take, then one more
\* (lazy) or one fewer (greedy) until the rest matches
TryRuns(piece, rest, text, pos, groups, k, most) ==
    IF k < 1 \/ k > most THEN None
    ELSE LET m == MatchHere(rest, text, pos + k,
                            IF piece.t = "ws" THEN groups
                            ELSE Append(groups, SubSeq(text, pos + 1, pos + k)))
         IN  IF IsNone(m)
             THEN TryRuns(piece, rest, text, pos, groups,
                          IF piece.t = "lazy" THEN k + 1 ELSE k - 1, most)
             ELSE m

\* re.finditer(pattern, text): the matches from left to right, each search
\* starting where the match before it ended
RECURSIVE FindIter(_, _, _)
FindIter(pattern, text, from) ==
    IF from >= Len(text) THEN <<>>
    ELSE LET m == MatchHere(pattern, text, from, <<>>)
         IN  IF IsNone(m) THEN FindIter(pattern, text, from + 1)
             ELSE <<m[1]>> \o FindIter(pattern, text, m[1].end)

\* str.strip()
RECURSIVE Strip(_)
Strip(s) ==
    IF s # <<>> /\ Head(s) \in Whitespace THEN Strip(Tail(s))
    ELSE IF s # <<>> /\ s[Len(s)] \in Whitespace
         THEN Strip(SubSeq(s, 1, Len(s) - 1))
         ELSE s

Is == Alt(<<<<"i", "s">>, <<"a", "r", "e">>>>)
At == Alt(<<<<"a", "t">>, <<"i", "n">>, <<"o", "n">>>>)
My == Alt(<<<<"m", "y">>, <<"t", "h", "e">>>>)

\* MemoryExtractor.MEMORY_PATTERNS: the patterns and their categories
MEMORY_PATTERNS ==
    << <<  <<My, Ws, Lazy, Ws, Is, Ws, At, Ws, Greedy>>,
           <<"l", "o", "c", "a", "t", "i", "o", "n">> >>,
       <<  <<Lazy, Ws, Is, Ws,
             Alt(<<<<"l", "o", "c", "a", "t", "e", "d">>, <<"p", "l", "a", "c", "e", "d">>, <<"s", "t", "o", "r", "e", "d">>>>), Ws, At, Ws, Greedy>>,
           <<"l", "o", "c", "a", "t", "i", "o", "n">> >>,
       <<  <<My, Ws, Lazy, Ws, Is, Ws, Greedy>>,
           <<"p", "e", "r", "s", "o", "n", "a", "l">> >>,
       <<  <<Lit(<<"I">>), Ws, Alt(<<<<"a", "m">>, <<"h", "a", "v", "e">>, <<"w", "o", "r", "k">>>>), Ws, Greedy>>,
           <<"p", "e", "r", "s", "o", "n", "a", "l">> >>,
       <<  <<Lazy, Ws, Alt(<<<<"i", "s">>, <<"w", "i", "l", "l", " ", "b", "e">>>>), Ws,
             Alt(<<<<"o", "n">>, <<"a", "t">>>>), Ws, Greedy>>,
           <<"s", "c", "h", "e", "d", "u", "l", "e">> >>,
       <<  <<Alt(<<<<"r", "e", "m", "e", "m", "b", "e", "r">>, <<"r", "e", "m", "i", "n", "d">>>>), Ws,
             Alt(<<<<"m", "e">>, <<"t", "h", "a", "t">>>>), Ws, Greedy>>,
           <<"r", "e", "m", "i", "n", "d", "e", "r">> >>,
       <<  <<Lit(<<"I">>), Ws,
             Alt(<<<<"l", "i", "k", "e">>, <<"l", "o", "v", "e">>, <<"p", "r", "e", "f", "e", "r">>, <<"h", "a", "t", "e">>, <<"d", "i", "s", "l", "i", "k", "e">>>>),
             Ws, Greedy>>,
           <<"p", "r", "e", "f", "e", "r", "e", "n", "c", "e">> >> >>

\* the MemoryItem _extract_from_text builds from a match
ExtractedItemDated(key, value, category, text, now) ==
    [MemoryItem(key, value \o <<ToString(now)>>, category, now, now)
        EXCEPT !.context = Some(text)]

ExtractedItem(key, value, category, text, now) ==
    [MemoryItem(key, value, category, now, now) EXCEPT !.context = Some(text)]

\* the (key, value, category) of the matches of the patterns from the p-th
\* on
RECURSIVE MatchesFrom(_, _)
MatchesFrom(p, text_lower) ==
    IF p > Len(MEMORY_PATTERNS) THEN <<>>
    ELSE LET matches == FindIter(MEMORY_PATTERNS[p][1], text_lower, 0)
             kept == SelectSeq(matches, LAMBDA m : Len(m.groups) >= 2)
         IN  [k \in 1..Len(kept) |->
                 <<Strip(kept[k].groups[1]), Strip(kept[k].groups[2]),
                   MEMORY_PATTERNS[p][2]>>]
             \o MatchesFrom(p + 1, text_lower)

\* the utterances tried
WalletAtMainDesk == <<"M", "y", " ", "w", "a", "l", "l", "e", "t", " ", "i", "s", " ", "a", "t", " ", "t", "h", "e", " ", "m", "a", "i", "n", " ", "d", "e", "s", "k">>
WorkAsEngineer == <<"I", " ", "w", "o", "r", "k", " ", "a", "s", " ", "a", " ", "s", "o", "f", "t", "w", "a", "r", "e", " ", "e", "n", "g", "i", "n", "e", "e", "r">>
RememberDentist == <<"r", "e", "m", "e", "m", "b", "e", "r", " ", "t", "h", "a", "t", " ", "I", " ", "h", "a", "v", "e", " ", "a", " ", "d", "e", "n", "t", "i", "s", "t", " ", "a", "p", "p", "o", "i", "n", "t", "m", "e", "n", "t">>
LoveHiking == <<"I", " ", "l", "o", "v", "e", " ", "h", "i", "k", "i", "n", "g">>
WalletOnDesk == <<"m", "y", " ", "w", "a", "l", "l", "e", "t", " ", "i", "s", " ", "o", "n", " ", "t", "h", "e", " ", "d", "e", "s", "k">>
Utterances == {WalletAtMainDesk, WorkAsEngineer, RememberDentist, LoveHiking,
               WalletOnDesk}

\* the matches of the utterances tried, found once
Matches == [text \in Utterances |-> MatchesFrom(1, Lower(text))]

\* MemoryExtractor._extract_from_text
ExtractFromText(text, now) ==
    LET found == IF text \in Utterances THEN Matches[text]
                 ELSE MatchesFrom(1, Lower(text))
    IN  [k \in 1..Len(found) |->
            ExtractedItem(found[k][1], found[k][2], found[k][3], text, now)]

\* an extractor that reads the messages of every role
RECURSIVE ExtractMemoriesAnyRole(_, _)
ExtractMemoriesAnyRole(messages, now) ==
    IF messages = <<>> THEN <<>>
    ELSE ExtractFromText(Head(messages).content, now)
         \o ExtractMemoriesAnyRole(Tail(messages), now)

\* MemoryExtractor.extract_memories: the items of the user messages
RECURSIVE ExtractMemories(_, _)
ExtractMemories(messages, now) ==
    IF messages = <<>> THEN <<>>
    ELSE (IF Head(messages).role = USER
          THEN ExtractFromText(Head(messages).content, now)
          ELSE <<>>)
         \o ExtractMemories(Tail(messages), now)


\* ---- the conversations tried ----

MaxExMsgs == 2        \* messages of a conversation handed to the extractor
MaxExTicks == 1       \* clock ticks of a behaviour of SpecExtract

\* who says what: the user each utterance, the assistant and the system
\* one each
Spoken == {<<USER, text>> : text \in Utterances}
              \cup {<<ASSISTANT, WalletOnDesk>>, <<SYSTEM, WalletAtMainDesk>>}

\* the message lists of at most n messages
RECURSIVE ExMessageLists(_)
ExMessageLists(n) ==
    IF n = 0 THEN {<<>>}
    ELSE ExMessageLists(n - 1) \cup
         {Append(l, Message(MsgUuid(n), said[1], said[2], 0, None, "")) :
              l \in {m \in ExMessageLists(n - 1) : Len(m) = n - 1},
              said \in Spoken}

ExInit ==
    /\ TurnParked
    /\ clock = 0
    /\ cv = Idle
    /\ cvPrev = Idle
    /\ cx = Idle
    /\ \E messages \in ExMessageLists(MaxExMsgs) :
          rt = [c |-> "extract",
                conversation |-> [NoConv EXCEPT !.id = ConvId(1),
                                                !.messages = messages],
                calls |-> <<>>]

\* MemoryExtractor().extract_memories(conversation); the call assigns
\* nothing to the conversation
ExExtract ==
    /\ rt.c = "extract"
    /\ Len(rt.calls) < 2
    /\ rt' = [rt EXCEPT !.calls =
                Append(@, [items |-> ExtractMemories(rt.conversation.messages, clock),
                           before |-> rt.conversation])]
    /\ UNCHANGED <<turnVars, clock, cv, cvPrev, cx>>

\* time passes between two calls
ExTick ==
    /\ rt.c = "extract"
    /\ clock < MaxExTicks
    /\ clock' = clock + 1
    /\ UNCHANGED <<turnVars, cv, cvPrev, cx, rt>>

ExNext == ExExtract \/ ExTick

SpecExtract == ExInit /\ [][ExNext]_vars

\* the (key, value, category) tuples of a list of items
Tuples(items) ==
    [k \in 1..Len(items) |->
        <<items[k].key, items[k].value, items[k].category>>]

Extracted(text) ==
    /\ rt.c = "extract"
    /\ Len(rt.conversation.messages) = 1
    /\ rt.conversation.messages[1].role = USER
    /\ rt.conversation.messages[1].content = text
    /\ rt.calls # <<>>

\* C17 (as claimed): each example utterance yields at least one item, and
\* the first item has the category of the example; for the wallet the key
\* contains 'wallet' and the value contains 'main desk'.
C17_ExamplesYieldTheirCategory ==
    /\ Extracted(WalletAtMainDesk) =>
          /\ rt.calls[1].items # <<>>
          /\ rt.calls[1].items[1].category = <<"l", "o", "c", "a", "t", "i", "o", "n">>
          /\ In(<<"w", "a", "l", "l", "e", "t">>, rt.calls[1].items[1].key)
          /\ In(<<"m", "a", "i", "n", " ", "d", "e", "s", "k">>, rt.calls[1].items[1].value)
    /\ Extracted(WorkAsEngineer) =>
          /\ rt.calls[1].items # <<>>
          /\ rt.calls[1].items[1].category = <<"p", "e", "r", "s", "o", "n", "a", "l">>
    /\ Extracted(RememberDentist) =>
          /\ rt.calls[1].items # <<>>
          /\ rt.calls[1].items[1].category = <<"r", "e", "m", "i", "n", "d", "e", "r">>
    /\ Extracted(LoveHiking) =>
          /\ rt.calls[1].items # <<>>
          /\ rt.calls[1].items[1].category = <<"p", "r", "e", "f", "e", "r", "e", "n", "c", "e">>

\* C18 (as claimed): 'my wallet is on the desk' yields exactly one item, of
\* category location, its key containing 'wallet' and its value 'desk'.
C18_OneItemPerSpan ==
    Extracted(WalletOnDesk) =>
        /\ Len(rt.calls[1].items) = 1
        /\ rt.calls[1].items[1].category = <<"l", "o", "c", "a", "t", "i", "o", "n">>
        /\ In(<<"w", "a", "l", "l", "e", "t">>, rt.calls[1].items[1].key)
        /\ In(<<"d", "e", "s", "k">>, rt.calls[1].items[1].value)

-----------------------------------------------------------------------------
(* features.py: ContextManager._find_relevant_memories on its own          *)
(* (SpecScore).                                                            *)

WalletItem == MemoryItem(<<"w", "a", "l", "l", "e", "t">>, <<"t", "h", "e", " ", "m", "a", "i", "n", " ", "d", "e", "s", "k">>, <<"l", "o", "c", "a", "t", "i", "o", "n">>, 0, 0)
\* an item scored a third by an earlier call
PlaceItem ==
    [MemoryItem(<<"k", "e", "y", "s">>, <<"H", "a", "l", "l">>,
                <<"L", "o", "c", "a", "t", "i", "o", "n">>, 0, 0)
        EXCEPT !.confidence = 1]
ScItems == Items \cup {WalletItem, PlaceItem}

WhereIsMyWallet == <<"w", "h", "e", "r", "e", " ", "i", "s", " ", "m", "y", " ", "w", "a", "l", "l", "e", "t">>
ScQueries == Queries \cup {WhereIsMyWallet}

\* the lists of n different items
RECURSIVE ScLists(_)
ScLists(n) ==
    IF n = 0 THEN {<<>>}
    ELSE {Append(l, x) : l \in ScLists(n - 1), x \in ScItems}

ScPools == UNION {{l \in ScLists(n) : \A i, j \in 1..n : i # j => l[i] # l[j]} :
                     n \in 0..MaxPool}

ScoreInit ==
    /\ TurnParked
    /\ clock = 0
    /\ cv = Idle
    /\ cvPrev = Idle
    /\ rt = Idle
    /\ \E pool \in ScPools, q \in ScQueries :
          cx = [c |-> "score", query |-> q, given |-> pool, memories |-> pool,
                calls |-> <<>>]

\* ContextManager()._find_relevant_memories(query, memories): the items get
\* their confidence in place, the list returned is kept as indices into the
\* pool
ScFind ==
    /\ cx.c = "score"
    /\ Len(cx.calls) < 2
    /\ LET found == FindRelevantMemories(cx.query, cx.memories)
       IN  cx' = [cx EXCEPT !.memories = found.memories,
                            !.calls = Append(@, found.relevant)]
    /\ UNCHANGED <<turnVars, clock, cv, cvPrev, rt>>

ScoreNext == ScFind

SpecScore == ScoreInit /\ [][ScoreNext]_vars

\* the score the claim gives item i of the pool
Claimed(i) ==
    LET q == Lower(cx.query)
        tokens == Split(Lower(cx.given[i].value))
    IN    (IF In(Lower(cx.given[i].key), q) THEN 2 ELSE 0)
        + (IF \E w \in 1..Len(tokens) : In(tokens[w], q) THEN 1 ELSE 0)
        + (IF In(cx.given[i].category, q) THEN 1 ELSE 0)

\* item i of the pool is in the list the k-th call returned
Returned19(k, i) == \E j \in 1..Len(cx.calls[k]) : cx.calls[k][j] = i

\* C19: an item is returned iff its score (2 for the folded key in the
\* folded query, 1 for a token of the folded value in it, 1 for the
\* category name in it) is positive; its confidence is then min(1, s/3),
\* which lies in (0, 1]; an item whose key occurs in the query is returned
\* with a positive confidence.
C19_ScoreAndConfidence ==
    (cx.c = "score" /\ cx.calls # <<>>) =>
        \A i \in 1..Len(cx.given) :
            /\ Returned19(1, i) <=> Claimed(i) > 0
            /\ Returned19(1, i) =>
                  /\ cx.memories[i].confidence = Min(One, Claimed(i))
                  /\ cx.memories[i].confidence > 0
                  /\ cx.memories[i].confidence <= One
            /\ ~Returned19(1, i) =>
                  cx.memories[i].confidence = cx.given[i].confidence
            /\ In(Lower(cx.given[i].key), Lower(cx.query)) =>
                  /\ Returned19(1, i)
                  /\ cx.memories[i].confidence > 0

\* 'where is my wallet' asked of a pool that holds the wallet item after
\* an item that is not returned and one whose category is capitalised
C19_Witness ==
    /\ cx.c = "score"
    /\ cx.calls # <<>>
    /\ cx.query = WhereIsMyWallet
    /\ \E i \in 1..Len(cx.given) :
          /\ cx.given[i] = WalletItem
          /\ Returned19(1, i)
          /\ cx.memories[i].confidence = 2
    /\ \E i \in 1..Len(cx.given) : ~Returned19(1, i)

\* C20: the list returned holds each positively scored item once, by
\* falling confidence, items of equal confidence in the order of the pool;
\* a second call with the same query on the same pool returns the same
\* list.
C20_StableByConfidence ==
    (cx.c = "score" /\ cx.calls # <<>>) =>
        LET out == cx.calls[1]
        IN  /\ \A i \in 1..Len(cx.given) :
                  Cardinality({j \in 1..Len(out) : out[j] = i})
                      = (IF Claimed(i) > 0 THEN 1 ELSE 0)
            /\ \A j, k \in 1..Len(out) :
                  j < k =>
                      \/ cx.memories[out[j]].confidence
                             > cx.memories[out[k]].confidence
                      \/ /\ cx.memories[out[j]].confidence
                               = cx.memories[out[k]].confidence
                         /\ out[j] < out[k]
            /\ \A k \in 1..Len(cx.calls) : cx.calls[k] = out

\* two calls; two returned items of equal confidence, and one of a higher
\* confidence that stands after them in the pool and before them in the list
C20_Witness ==
    /\ cx.c = "score"
    /\ Len(cx.calls) = 2
    /\ Len(cx.calls[1]) = 3
    /\ cx.calls[1][1] = 3
    /\ cx.memories[1].confidence = cx.memories[2].confidence
    /\ cx.memories[3].confidence > cx.memories[1].confidence

-----------------------------------------------------------------------------
(* features.py: ConversationAnalyzer (SpecAnalyze).                        *)

\* ' '.join(texts)
RECURSIVE Join(_)
Join(texts) ==
    IF texts = <<>> THEN <<>>
    ELSE IF Len(texts) = 1 THEN texts[1]
    ELSE texts[1] \o <<" ">> \o Join(Tail(texts))

\* str.count(ch) for one character
Count(s, ch) == Cardinality({i \in 1..Len(s) : s[i] = ch})

\* the contents of a message list
Contents(messages) == [i \in 1..Len(messages) |-> messages[i].content]

\* a comprehension that counts the system messages with the role asked for
MessagesOfOrSystem(messages, role) ==
    SelectSeq(messages, LAMBDA m : m.role \in {role, SYSTEM})

\* [m for m in conversation.messages if m.role == role]
MessagesOf(messages, role) == SelectSeq(messages, LAMBDA m : m.role = role)

\* topic_keywords of _extract_topics, in the order of the dict
TopicKeywords ==
    << <<"work", <<<<"w", "o", "r", "k">>, <<"j", "o", "b">>, <<"o", "f", "f", "i", "c", "e">>, <<"m", "e", "e", "t", "i", "n", "g">>, <<"p", "r", "o", "j", "e", "c", "t">>,
                   <<"d", "e", "a", "d", "l", "i", "n", "e">>>> >>,
       <<"personal", <<<<"f", "a", "m", "i", "l", "y">>, <<"h", "o", "m", "e">>, <<"p", "e", "r", "s", "o", "n", "a", "l">>, <<"l", "i", "f", "e">>,
                       <<"h", "e", "a", "l", "t", "h">>>> >>,
       <<"technology", <<<<"c", "o", "m", "p", "u", "t", "e", "r">>, <<"s", "o", "f", "t", "w", "a", "r", "e">>, <<"a", "p", "p">>, <<"t", "e", "c", "h">>,
                         <<"d", "i", "g", "i", "t", "a", "l">>>> >>,
       <<"schedule", <<<<"t", "i", "m", "e">>, <<"d", "a", "t", "e">>, <<"s", "c", "h", "e", "d", "u", "l", "e">>, <<"a", "p", "p", "o", "i", "n", "t", "m", "e", "n", "t">>,
                       <<"c", "a", "l", "e", "n", "d", "a", "r">>>> >>,
       <<"location", <<<<"p", "l", "a", "c", "e">>, <<"l", "o", "c", "a", "t", "i", "o", "n">>, <<"a", "d", "d", "r", "e", "s", "s">>, <<"w", "h", "e", "r", "e">>,
                       <<"r", "o", "o", "m">>>> >>,
       <<"memory", <<<<"r", "e", "m", "e", "m", "b", "e", "r">>, <<"r", "e", "c", "a", "l", "l">>, <<"m", "e", "m", "o", "r", "y">>, <<"f", "o", "r", "g", "e", "t">>,
                     <<"s", "t", "o", "r", "e", "d">>>> >> >>

\* any(keyword in text for keyword in keywords)
AnyIn(keywords, text) == \E k \in 1..Len(keywords) : In(keywords[k], text)

\* ConversationAnalyzer._extract_topics
ExtractTopics(messages) ==
    LET text == Lower(Join(Contents(messages)))
        found == SelectSeq(TopicKeywords, LAMBDA e : AnyIn(e[2], text))
    IN  [k \in 1..Len(found) |-> found[k][1]]

PositiveWords ==
    <<<<"g", "o", "o", "d">>, <<"g", "r", "e", "a", "t">>, <<"e", "x", "c", "e", "l", "l", "e", "n", "t">>, <<"a", "m", "a", "z", "i", "n", "g">>, <<"w", "o", "n", "d", "e", "r", "f", "u", "l">>,
      <<"f", "a", "n", "t", "a", "s", "t", "i", "c">>, <<"l", "o", "v", "e">>, <<"l", "i", "k", "e">>, <<"h", "a", "p", "p", "y">>, <<"p", "l", "e", "a", "s", "e", "d">>>>
NegativeWords ==
    <<<<"b", "a", "d">>, <<"t", "e", "r", "r", "i", "b", "l", "e">>, <<"a", "w", "f", "u", "l">>, <<"h", "a", "t", "e">>, <<"d", "i", "s", "l", "i", "k", "e">>, <<"a", "n", "g", "r", "y">>,
      <<"f", "r", "u", "s", "t", "r", "a", "t", "e", "d">>, <<"d", "i", "s", "a", "p", "p", "o", "i", "n", "t", "e", "d">>, <<"s", "a", "d">>>>

\* sum(1 for word in words if word in text)
WordsIn(words, text) == Cardinality({k \in 1..Len(words) : In(words[k], text)})

\* ConversationAnalyzer._analyze_sentiment
AnalyzeSentiment(messages) ==
    IF messages = <<>> THEN "neutral"
    ELSE LET text == Lower(Join(Contents(messages)))
             positive_count == WordsIn(PositiveWords, text)
             negative_count == WordsIn(NegativeWords, text)
         IN  IF positive_count > negative_count THEN "positive"
             ELSE IF negative_count > positive_count THEN "negative"
             ELSE "neutral"

\* ConversationAnalyzer._count_questions
RECURSIVE CountQuestions(_)
CountQuestions(messages) ==
    IF messages = <<>> THEN 0
    ELSE Count(Head(messages).content, "?") + CountQuestions(Tail(messages))

\* ConversationAnalyzer.analyze_conversation; the duration is in clock
\* ticks, where the code gives minutes
AnalyzeConversation(conversation) ==
    LET user_messages == MessagesOf(conversation.messages, USER)
        assistant_messages == MessagesOf(conversation.messages, ASSISTANT)
    IN  [message_count |-> Len(conversation.messages),
         user_message_count |-> Len(user_messages),
         assistant_message_count |-> Len(assistant_messages),
         conversation_length |-> Len(Join(Contents(conversation.messages))),
         topics |-> ExtractTopics(conversation.messages),
         sentiment |-> AnalyzeSentiment(user_messages),
         questions_asked |-> CountQuestions(user_messages),
         duration |-> conversation.updated_at - conversation.created_at]

\* ---- the conversations tried ----

MaxAnMsgs == 4        \* messages of a conversation handed to the analyzer

HowAreYou == <<"H", "e", "l", "l", "o", ",", " ", "h", "o", "w", " ", "a", "r", "e", " ", "y", "o", "u", "?">>
HowCanIHelp == <<"I", "'", "m", " ", "d", "o", "i", "n", "g", " ", "g", "r", "e", "a", "t", "!", " ", "H", "o", "w", " ", "c", "a", "n", " ", "I", " ", "h", "e", "l", "p", "?">>
WorkSchedule == <<"C", "a", "n", " ", "y", "o", "u", " ", "r", "e", "m", "e", "m", "b", "e", "r", " ", "m", "y", " ", "w", "o", "r", "k", " ", "s", "c", "h", "e", "d", "u", "l", "e", "?">>
AnSpoken == {<<USER, HowAreYou>>, <<ASSISTANT, HowCanIHelp>>,
             <<USER, WorkSchedule>>, <<SYSTEM, <<"B", "e", " ", "k", "i", "n", "d", ".", " ", "W", "h", "y", " ", "n", "o", "t", "?">>>>,
             <<USER, <<"I", " ", "h", "a", "t", "e", " ", "t", "h", "i", "s">>>>}

\* the message lists of at most n messages
RECURSIVE AnMessageLists(_)
AnMessageLists(n) ==
    IF n = 0 THEN {<<>>}
    ELSE AnMessageLists(n - 1) \cup
         {Append(l, Message(MsgUuid(n), said[1], said[2], 0, None, "")) :
              l \in {m \in AnMessageLists(n - 1) : Len(m) = n - 1},
              said \in AnSpoken}

AnInit ==
    /\ TurnParked
    /\ clock = 0
    /\ cv = Idle
    /\ cvPrev = Idle
    /\ cx = Idle
    /\ \E messages \in AnMessageLists(MaxAnMsgs) :
          rt = [c |-> "analyze",
                conversation |-> [NoConv EXCEPT !.id = "test",
                                                !.messages = messages],
                analysis |-> None]

\* ConversationAnalyzer().analyze_conversation(conversation)
AnAnalyze ==
    /\ rt.c = "analyze"
    /\ IsNone(rt.analysis)
    /\ rt' = [rt EXCEPT !.analysis = Some(AnalyzeConversation(rt.conversation))]
    /\ UNCHANGED <<turnVars, clock, cv, cvPrev, cx>>

AnNext == AnAnalyze

SpecAnalyze == AnInit /\ [][AnNext]_vars

\* the conversation has been analyzed
Analyzed == rt.c = "analyze" /\ ~IsNone(rt.analysis)

\* the number of messages of the conversation with this role
Said(role) ==
    Cardinality({i \in 1..Len(rt.conversation.messages) :
                    rt.conversation.messages[i].role = role})

\* C21: message_count is the length of the message sequence and the sum of
\* user_message_count, assistant_message_count and the number of system
\* messages; two user messages and one assistant message give 3, 2 and 1.
C21_CountsPartitionByRole ==
    Analyzed =>
        LET analysis == rt.analysis[1]
        IN  /\ analysis.message_count = Len(rt.conversation.messages)
            /\ analysis.message_count =
                  analysis.user_message_count
                      + analysis.assistant_message_count + Said(SYSTEM)
            /\ analysis.user_message_count = Said(USER)
            /\ analysis.assistant_message_count = Said(ASSISTANT)
            /\ (Said(USER) = 2 /\ Said(ASSISTANT) = 1 /\ Said(SYSTEM) = 0) =>
                  /\ analysis.message_count = 3
                  /\ analysis.user_message_count = 2
                  /\ analysis.assistant_message_count = 1

\* the conversation of test_conversation_analysis with a system message
\* ahead of it, analyzed
C21_Witness ==
    /\ Analyzed
    /\ Said(SYSTEM) = 1
    /\ Said(USER) = 2
    /\ Said(ASSISTANT) = 1
    /\ rt.analysis[1].message_count = 4

\* C22 (as claimed): questions_asked is the number of '?' characters in the
\* contents of all the messages of the conversation, whatever their role.
C22_QuestionsOfAllRoles ==
    Analyzed =>
        rt.analysis[1].questions_asked =
            Count(Join(Contents(rt.conversation.messages)), "?")

-----------------------------------------------------------------------------
(* Empty inputs, the injected memories and the frame of the assembly       *)
(* (SpecCtx).                                                              *)

\* C23 (as claimed): an empty conversation extracts no memories, assembles
\* to an empty context and is analyzed to counts 0, no topics and neutral
\* sentiment; an empty or absent pool injects no memory; an empty query
\* selects no memory item.
C23_EmptyInputsGiveEmptyResults ==
    cx.c = "out" =>
        /\ cx.conversation.messages = <<>> =>
              /\ ExtractMemories(cx.conversation.messages, clock) = <<>>
              /\ cx.out = <<>>
              /\ AnalyzeConversation(cx.conversation).message_count = 0
              /\ AnalyzeConversation(cx.conversation).user_message_count = 0
              /\ AnalyzeConversation(cx.conversation).assistant_message_count = 0
              /\ AnalyzeConversation(cx.conversation).questions_asked = 0
              /\ AnalyzeConversation(cx.conversation).topics = <<>>
              /\ AnalyzeConversation(cx.conversation).sentiment = "neutral"
        /\ (IsNone(cx.given) \/ cx.given[1] = <<>>) => cx.out = cx.win
        /\ cx.query = <<>> => cx.out = cx.win

\* C26 (as claimed): with a pool supplied and a window of at least one
\* message, the memory messages of the context are those of the min(3,
\* number of positively scored items) items ranked first, in rank order,
\* each a system message 'Memory: {key} is {value}' whose metadata marks a
\* memory and carries the item's confidence.
C26_TopThreeInRankOrder ==
    (cx.c = "out" /\ ~IsNone(cx.given) /\ cx.window > 0) =>
        LET found == FindRelevantMemories(cx.query, cx.given[1])
            mems == SelectSeq(cx.out, IsMemoryMessage)
        IN  /\ Len(mems) = Min(MemoryCap, Len(found.relevant))
            /\ Len(cx.out) = Len(cx.win) + Len(mems)
            /\ \A j \in 1..Len(mems) :
                  LET memory == found.memories[found.relevant[j]]
                  IN  /\ mems[j].role = SYSTEM
                      /\ mems[j].content =
                            <<"M", "e", "m", "o", "r", "y", ":", " ">> \o memory.key \o <<" ", "i", "s", " ">> \o memory.value
                      /\ mems[j].metadata =
                            Some(<< <<"type", Some("memory")>>,
                                    <<"confidence", Some(memory.confidence)>> >>)

-----------------------------------------------------------------------------
(* The frame of the scorer (SpecScore).                                    *)

\* C25: after a call of the scorer the pool has the items it had, in their
\* order; every item has its key, value, category, timestamps, access_count
\* and context; a positively scored item has the confidence min(1, s/3) of
\* its score, a zero-scored item the confidence it had.
C25_ScoringWritesConfidenceOnly ==
    (cx.c = "score" /\ cx.calls # <<>>) =>
        /\ Len(cx.memories) = Len(cx.given)
        /\ \A i \in 1..Len(cx.given) :
              /\ [cx.memories[i] EXCEPT !.confidence = 0]
                    = [cx.given[i] EXCEPT !.confidence = 0]
              /\ cx.memories[i].confidence =
                    (IF Claimed(i) > 0 THEN Min(One, Claimed(i))
                     ELSE cx.given[i].confidence)

\* a call that overwrote the confidence of one item and left an item of
\* confidence one third, which it did not return, as it was
C25_Witness ==
    /\ cx.c = "score"
    /\ cx.calls # <<>>
    /\ \E i \in 1..Len(cx.given) :
          /\ Returned19(1, i)
          /\ cx.memories[i].confidence # cx.given[i].confidence
    /\ \E i \in 1..Len(cx.given) :
          /\ ~Returned19(1, i)
          /\ cx.given[i].confidence = 1
          /\ cx.memories[i].confidence = 1

-----------------------------------------------------------------------------
(* Where the extracted items come from (SpecExtract).                      *)

\* the place of a category among the rules: the first rule that has it
RuleRank(category) ==
    CHOOSE p \in 1..Len(MEMORY_PATTERNS) :
        /\ MEMORY_PATTERNS[p][2] = category
        /\ \A q \in 1..(p - 1) : MEMORY_PATTERNS[q][2] # category

\* the items of the user messages among the first n messages
RECURSIVE FromUsers(_, _, _)
FromUsers(messages, n, now) ==
    IF n = 0 THEN <<>>
    ELSE FromUsers(messages, n - 1, now)
         \o (IF messages[n].role = USER
             THEN ExtractFromText(messages[n].content, now) ELSE <<>>)

\* C24: the items extract_memories returns are those of the user messages,
\* message by message in the order of the conversation: each has the
\* content of a user message as its context, the messages of the assistant
\* and of the system add none, and the items of one message stand in the
\* order of the rules.
C24_ItemsFromUserTextOnly ==
    rt.c = "extract" =>
        \A k \in 1..Len(rt.calls) :
            LET items == rt.calls[k].items
                messages == rt.conversation.messages
            IN  /\ \A j \in 1..Len(items) :
                      \E i \in 1..Len(messages) :
                          /\ messages[i].role = USER
                          /\ items[j].context = Some(messages[i].content)
                /\ Tuples(items) = Tuples(FromUsers(messages, Len(messages), 0))
                /\ Len(messages) = 1 =>
                      \A i, j \in 1..Len(items) :
                          i < j => RuleRank(items[i].category)
                                       <= RuleRank(items[j].category)

\* a user message that yields items after a system message that would
\* yield items if it were read
C24_Witness ==
    /\ rt.c = "extract"
    /\ rt.calls # <<>>
    /\ Len(rt.conversation.messages) = 2
    /\ rt.conversation.messages[1].role = SYSTEM
    /\ rt.conversation.messages[2].role = USER
    /\ Len(rt.calls[1].items) = 3

-----------------------------------------------------------------------------
(* Turns on a conversation that already holds messages (SpecLong): the     *)
(* conversation was stored with up to MaxStored messages before the        *)
(* session, and is the current one.                                        *)

MaxStored == 11       \* messages of the conversation stored before the session

\* the conversation as stored: n messages, user and assistant in turn
Stored(n) ==
    [Started(1) EXCEPT !.messages =
        [i \in 1..n |->
            Message("p" \o ToString(i),
                    IF i % 2 = 1 THEN USER ELSE ASSISTANT,
                    IF i % 2 = 1 THEN "hi" ELSE Reply, 0, None, "")]]

LongInit ==
    /\ repoKind \in {"json", "memory"}
    /\ \E n \in 0..MaxStored :
          /\ files = [id \in AllIds |->
                        IF repoKind = "json" /\ id = ConvId(1)
                        THEN Some(ConversationToDict(Stored(n))) ELSE None]
          /\ heap = IF repoKind = "json" THEN <<>> ELSE <<Stored(n)>>
    /\ mtime = [id \in AllIds |-> 0]
    /\ conversations = [id \in AllIds |->
                          IF repoKind = "memory" /\ id = ConvId(1) THEN 1 ELSE 0]
    /\ keyOrder = IF repoKind = "json" THEN <<>> ELSE <<ConvId(1)>>
    /\ loaded = FALSE
    /\ current = Some(ConvId(1))
    /\ task = [t \in Tasks |-> IdleTask]
    /\ result = [t \in Tasks |-> NoResult]
    /\ lastTurn = None
    /\ nextConv = 1
    /\ nextUuid = 0
    /\ clock = 0
    /\ cv = Idle
    /\ cvPrev = Idle
    /\ cx = Idle
    /\ rt = Idle

LongNext ==
    \E t \in Sessions, ok \in BOOLEAN :
          \/ \E m \in Texts, c \in OptIds : SerialSendMessage(t, m, c, ok)
          \/ TurnBegin(t, ok)
          \/ TurnLoad(t, ok)
          \/ TurnGenerate(t, ok)
          \/ TurnPersist(t, ok)
          \/ CtlLoadModel(t, ok)

SpecLong == LongInit /\ [][LongNext]_vars

\* C27: the context a turn hands to generate_response holds at most 10
\* messages and is the end of the turn's conversation, in its order; the
\* conversation is then what the turn read followed by the user message of
\* the turn and nothing else, so that the context ends with that message
\* and the assistant message is not yet in it.
C27_ContextIsRecentSuffix ==
    \A t \in Tasks :
        task[t].pc = "generating" =>
            LET messages == Work(t).messages
                context == task[t].ctx
                n == Len(context)
            IN  /\ n <= DefaultContextLength
                /\ n = Min(DefaultContextLength, Len(messages))
                /\ n >= 1
                /\ context = SubSeq(messages, Len(messages) - n + 1, Len(messages))
                /\ Len(messages) = Len(task[t].pre) + 1
                /\ SubSeq(messages, 1, Len(task[t].pre)) = task[t].pre
                /\ context[n].role = USER
                /\ context[n].content = task[t].text
                /\ context[n].id = MsgUuid(nextUuid)

\* a turn about to generate on a conversation of more than 10 messages
C27_Witness ==
    \E t \in Tasks :
        /\ task[t].pc = "generating"
        /\ Len(Work(t).messages) > DefaultContextLength
        /\ Len(task[t].ctx) = DefaultContextLength
        /\ task[t].ctx[1] # Work(t).messages[1]

-----------------------------------------------------------------------------
(* The writes of a turn and the controller's current conversation (Spec).  *)

\* the call of task t is inside ChatbotUseCase.send_message
InTurn(t) == task[t].pc \in {"reading", "loading", "generating", "persisting"}

\* C28: of the steps of a send_message call only the one that returns its
\* response writes to storage, and it writes the one record of the turn's
\* conversation; a step that ends the turn in an unknown id, a failed load
\* or a failed generation leaves a file store's record of the conversation
\* what the turn read at its start.
C28_WritesOnlyOnSuccess ==
    [][\A t \in Tasks :
         (InTurn(t) /\ task'[t] # task[t]) =>
            IF TurnSucceeds(t)
            THEN /\ conversations' = [conversations EXCEPT
                                         ![task[t].target] = task[t].ref]
                 /\ repoKind = "json" =>
                       /\ files'[task[t].target] # files[task[t].target]
                       /\ \A id \in AllIds \ {task[t].target} :
                             files'[id] = files[id]
            ELSE /\ files' = files
                 /\ mtime' = mtime
                 /\ conversations' = conversations
                 /\ keyOrder' = keyOrder
                 /\ (repoKind = "json" /\ task'[t].pc = "idle"
                                       /\ task[t].pc \in {"loading", "generating"}) =>
                       /\ ~IsNone(FileGet(files', task[t].target))
                       /\ FileGet(files', task[t].target)[1].messages
                             = task[t].pre]_vars

\* a file store after a turn whose generation failed, the conversation
\* still stored
C28_Witness ==
    /\ repoKind = "json"
    /\ ~IsNone(lastTurn)
    /\ lastTurn[1].outcome = "generate failed"
    /\ ~IsNone(files[lastTurn[1].id])
    /\ \A t \in Tasks : task[t].pc = "idle"

\* the step in which the send_message call of task t reaches the use case
Sends(t) == task[t].pc = "idle" /\ task'[t].pc = "reading"

\* C30: a send_message without an id and with no current conversation
\* creates a conversation, stores it, makes it current and addresses it;
\* without an id and with a current conversation it addresses the current
\* one; with an id it addresses that id; the two last leave the current id
\* as it is; and the current id changes in no step but one that starts a
\* conversation, by start_new_conversation or by such a first send_message.
C30_SessionTargetsCurrent ==
    [][/\ \A t \in Tasks :
            Sends(t) =>
               IF ~IsNone(task'[t].given)
               THEN /\ task'[t].target = task'[t].given[1]
                    /\ current' = current
               ELSE IF ~IsNone(current)
               THEN /\ task'[t].target = current[1]
                    /\ current' = current
               ELSE /\ Unknown(task'[t].target)
                    /\ ~IsNone(StoredAfter(task'[t].target))
                    /\ current' = Some(task'[t].target)
       /\ current' # current =>
             /\ nextConv' = nextConv + 1
             /\ current' = Some(ConvId(nextConv'))
             /\ ~IsNone(StoredAfter(ConvId(nextConv')))
             /\ \E t \in Tasks :
                   \/ result'[t] = Returned("start", ConvId(nextConv'))
                   \/ Sends(t) /\ IsNone(task'[t].given) /\ IsNone(current)]_vars

\* a send_message with the id of a conversation that is not the current one
C30_Witness ==
    \E t \in Tasks :
        /\ task[t].pc = "reading"
        /\ ~IsNone(task[t].given)
        /\ ~IsNone(current)
        /\ task[t].given[1] # current[1]
        /\ task[t].target = task[t].given[1]

=============================================================================
